---- MODULE Spec2Model ----
(***************************************************************************)
(* A model of the AI-Chat-Assistant backend:                               *)
(*   - the write-behind conversation buffer of app/persistence.py          *)
(*     (ChatPersistence) with the embedding cache of app/cache.py,         *)
(*   - the streaming engine of app/langgraph_graph.py and the SSE          *)
(*     transport of app/main.py with the cancellation registry,            *)
(*   - the agent graph of app/langgraph_graph.py and app/agents.           *)
(*                                                                         *)
(* Specifications:                                                         *)
(*   Spec         the persistence layer, one call at a time                *)
(*   SpecBatch    store_conversation and flush_session up to the batch     *)
(*                threshold, the clock standing still                      *)
(*   SpecRead     Spec with get_user_history and get_user_stats            *)
(*   SpecConc     the persistence layer, calls interleaved statement by    *)
(*                statement (worker threads and the sweep task)            *)
(*   SpecConcFair SpecConc with every call and the sweep task kept running *)
(*   SpecStream   one streaming turn: engine, consumer, cancel requests    *)
(*   SpecEngine   the same turn with the graph's tool starts followed      *)
(*   SpecRegistry the streaming turn of /chat among the streams of other   *)
(*                clients, with the stream sweep and time                  *)
(*   SpecSweep    the cancellation registry alone; SpecSweepFair with the  *)
(*                sweep task and the clock kept running                    *)
(*   SpecTurn     the streaming turn of /chat followed by the persistence  *)
(*                calls its cleanup starts, statement by statement         *)
(*   SpecRouter   one run of the agent graph; SpecRouterFair with the      *)
(*                graph kept running                                       *)
(*   SpecEmbed    store_conversation with several texts: the embedding     *)
(*                model and the embedding cache                            *)
(*   SpecChat     the non-streaming turns of /chat: the graph's run, the   *)
(*                record handed to the persistence layer, the response     *)
(*   SpecTool     the graph's run with the calls of booking_agent_tool     *)
(*   SpecMemory   the messages of the conversation threads over several    *)
(*                turns                                                    *)
(*   SpecCache    an EmbeddingCache called on its own                      *)
(*   SpecEvict    the same with larger caches, for the order of eviction   *)
(*   SpecCaches   an EmbeddingCache and a SystemMessageCache side by side  *)
(*   SpecStats    a UserStatsCache called while time passes                *)
(***************************************************************************)
EXTENDS Integers, Sequences, FiniteSets, Bags, TLC

(***************************************************************************)
(* Bounds of the model.                                                    *)
(***************************************************************************)
\* session keys are 1..NSessions
NSessions == 2
\* store_conversation calls in one run of Spec (the sweep and the clock)
MaxStores == 3
\* store_conversation calls in one run of SpecBatch (the batch threshold)
MaxBatchStores == 5
\* the clock runs from 0 to MaxTime
MaxTime == 3
\* capacity of the embedding cache (Config.EMBEDDING_CACHE_SIZE)
CacheSize == 1
\* worker threads running calls at the same time in SpecConc
NWorkers == 2
\* calls given to the worker threads in one run of SpecConc
MaxConcCalls == 3
\* low-level events the graph produces in one turn of SpecStream
MaxEvents == 3
\* the number of nodes of the agent graph's run that path keeps
PathWindow == 4
\* SpecMemory: turns on the thread ids 1..NThreads, MaxTurns of them, each
\* running at most MaxNodeRuns nodes of the graph
NThreads == 2
MaxTurns == 3
MaxNodeRuns == 4
\* SpecCache: the cache's max_size is 1..MaxCacheSize, the texts are
\* 1..NTexts, and get is called at most MaxCacheGets times
MaxCacheSize == 2
NTexts == 3
MaxCacheGets == 3
\* SpecEvict: the cache's max_size is 1..MaxEvictSize, with one text more
\* than the largest cache holds
MaxEvictSize == 3
\* SpecStats: the stats cache's max_size is 1..MaxStatsSize, with one user
\* more than the largest cache holds, and its TTL is 1..MaxStatsTTL
MaxStatsSize == 2
MaxStatsTTL == 2

(***************************************************************************)
(* Program constants.                                                      *)
(***************************************************************************)
\* self.BATCH_SIZE = 5
BATCH_SIZE == 5
\* self.BUFFER_TTL = Config.BUFFER_TTL, in ticks of the model's clock
BUFFER_TTL == 1
\* Config.STREAM_TTL, in ticks of the model's clock
STREAM_TTL == 1

Sessions == 1..NSessions
\* the combined texts (user message + " " + bot response) of the turns; the
\* buffer never reads a row's text, and its calls are given this one
Texts == {1}

\* Python's None where an embedding is expected; embeddings are non-empty.
None == <<>>

(***************************************************************************)
(* Dictionaries: a dict is a function on its set of keys.                  *)
(***************************************************************************)
EmptyDict == <<>>

\* d[k] = v
Put(d, k, v) == [x \in (DOMAIN d) \cup {k} |-> IF x = k THEN v ELSE d[x]]

\* d.pop(k, None) / del d[k] for a key that is present
Remove(d, k) == [x \in (DOMAIN d) \ {k} |-> d[x]]

\* the rows of a batch, as a bag
Rows(data) == SetToBag({data[i] : i \in 1..Len(data)})

(***************************************************************************)
(* app/cache.py: EmbeddingCache.  A cache value c is                       *)
(*   [entries |-> sequence of [key, value] in dict insertion order,        *)
(*    hits |-> n, misses |-> n, max_size |-> n].                           *)
(***************************************************************************)
\* EmbeddingCache(max_size): the cache after construction
NewCache(max_size) ==
    [entries |-> <<>>, hits |-> 0, misses |-> 0, max_size |-> max_size]

\* hashlib.md5(text).hexdigest(): a digest per text, distinct from the text
HashText(text) == 100 + text

\* embedding_model.encode(text).tolist(): the vector derived from the text
Encode(text) == <<text, text>>

CacheKeys(c) == {c.entries[i].key : i \in 1..Len(c.entries)}

CacheIndex(c, key) == CHOOSE i \in 1..Len(c.entries) : c.entries[i].key = key

\* a get that counts hits only
CacheGetForgetsMiss(c, text) ==
    LET key == HashText(text)
    IN IF key \in CacheKeys(c)
       THEN [cache |-> [c EXCEPT !.hits = @ + 1],
             value |-> c.entries[CacheIndex(c, key)].value]
       ELSE [cache |-> c, value |-> None]

\* EmbeddingCache.get: [cache |-> the cache afterwards, value |-> the result]
CacheGet(c, text) ==
    LET key == HashText(text)
    IN IF key \in CacheKeys(c)
       THEN [cache |-> [c EXCEPT !.hits = @ + 1],
             value |-> c.entries[CacheIndex(c, key)].value]
       ELSE [cache |-> [c EXCEPT !.misses = @ + 1], value |-> None]

\* a set that stores nothing when the cache is full
CacheSetDropsWhenFull(c, text, embedding) ==
    LET key == HashText(text)
    IN IF Len(c.entries) >= c.max_size
       THEN c
       ELSE IF key \in CacheKeys(c)
       THEN [c EXCEPT !.entries =
                [i \in 1..Len(c.entries) |->
                    IF c.entries[i].key = key
                    THEN [key |-> key, value |-> embedding]
                    ELSE c.entries[i]]]
       ELSE [c EXCEPT !.entries =
                Append(c.entries, [key |-> key, value |-> embedding])]

\* EmbeddingCache.set: evict the first entry when full, then assign the key
CacheSet(c, text, embedding) ==
    LET key == HashText(text)
        kept == IF Len(c.entries) >= c.max_size /\ Len(c.entries) > 0
                THEN Tail(c.entries) ELSE c.entries
        keys == {kept[i].key : i \in 1..Len(kept)}
    IN IF key \in keys
       THEN [c EXCEPT !.entries =
                [i \in 1..Len(kept) |->
                    IF kept[i].key = key
                    THEN [key |-> key, value |-> embedding] ELSE kept[i]]]
       ELSE [c EXCEPT !.entries =
                Append(kept, [key |-> key, value |-> embedding])]

\* EmbeddingCache.get_stats: the dict returned; hit_rate, the text of a
\* percentage with two decimals, is given in hundredths of a percent
CacheStats(c) ==
    LET total == c.hits + c.misses
    IN [hits |-> c.hits,
        misses |-> c.misses,
        hit_rate |-> IF total > 0
                     THEN (2 * 10000 * c.hits + total) \div (2 * total)
                     ELSE 0,
        size |-> Len(c.entries),
        max_size |-> c.max_size]

(***************************************************************************)
(* app/cache.py: SystemMessageCache.  A cache value c is                   *)
(*   [entries |-> sequence of [key, value] in dict insertion order,        *)
(*    max_size |-> n].                                                     *)
(* A user name and a context summary are strings, here sequences of        *)
(* characters.                                                             *)
(***************************************************************************)
\* SystemMessageCache(max_size): the cache after construction
NewSystemMessageCache(max_size) == [entries |-> <<>>, max_size |-> max_size]

\* f"{user_name}::{context_summary}"
SystemMessageKey(user_name, context_summary) ==
    user_name \o <<":", ":">> \o context_summary

\* SystemMessageCache.get: self._cache.get(key)
SystemMessageGet(c, user_name, context_summary) ==
    LET key == SystemMessageKey(user_name, context_summary)
    IN IF key \in CacheKeys(c)
       THEN c.entries[CacheIndex(c, key)].value
       ELSE None

\* a set that evicts nothing
SystemMessageSetKeepsAll(c, user_name, context_summary, message) ==
    LET key == SystemMessageKey(user_name, context_summary)
    IN IF key \in CacheKeys(c)
       THEN [c EXCEPT !.entries =
                [i \in 1..Len(c.entries) |->
                    IF c.entries[i].key = key
                    THEN [key |-> key, value |-> message]
                    ELSE c.entries[i]]]
       ELSE [c EXCEPT !.entries =
                Append(c.entries, [key |-> key, value |-> message])]

\* SystemMessageCache.set: remove the first entry when full, then assign
SystemMessageSet(c, user_name, context_summary, message) ==
    LET key == SystemMessageKey(user_name, context_summary)
        kept == IF Len(c.entries) >= c.max_size /\ Len(c.entries) > 0
                THEN Tail(c.entries) ELSE c.entries
        keys == {kept[i].key : i \in 1..Len(kept)}
    IN IF key \in keys
       THEN [c EXCEPT !.entries =
                [i \in 1..Len(kept) |->
                    IF kept[i].key = key
                    THEN [key |-> key, value |-> message] ELSE kept[i]]]
       ELSE [c EXCEPT !.entries =
                Append(kept, [key |-> key, value |-> message])]

(***************************************************************************)
(* app/cache.py: UserStatsCache, a lock around cachetools.TTLCache.  A     *)
(* cache value c is                                                        *)
(*   [entries |-> sequence of [key, value, expires], the least recently    *)
(*                used entry first,                                        *)
(*    ttl |-> ttl_seconds, maxsize |-> max_size].                          *)
(* TTLCache stamps an entry with expires = timer() + ttl when it is        *)
(* assigned, takes an entry for absent once timer() < expires is false,    *)
(* removes the expired entries at every assignment, and makes room for a   *)
(* new key in a full cache by removing the least recently used entry; a    *)
(* successful lookup and an assignment make the entry the most recently    *)
(* used.                                                                   *)
(***************************************************************************)
\* UserStatsCache(ttl_seconds, max_size): the cache after construction
NewStatsCache(ttl_seconds, max_size) ==
    [entries |-> <<>>, ttl |-> ttl_seconds, maxsize |-> max_size]

\* key in self._cache: the key is held and timer() < expires
StatsLive(c, key, time) ==
    \E i \in 1..Len(c.entries) :
        c.entries[i].key = key /\ time < c.entries[i].expires

\* the entries but the one of the key
StatsWithout(entries, key) == SelectSeq(entries, LAMBDA e : e.key # key)

\* UserStatsCache.get: [cache |-> the cache afterwards, value |-> the result]
StatsGet(c, user_name, time) ==
    IF StatsLive(c, user_name, time)
    THEN LET e == c.entries[CacheIndex(c, user_name)]
         IN [cache |-> [c EXCEPT !.entries =
                            Append(StatsWithout(c.entries, user_name), e)],
             value |-> e.value]
    ELSE [cache |-> c, value |-> None]

\* an assignment that never removes expired entries and stamps no new time
\* on a key that is held
StatsSetKeepsStamp(c, user_name, stats, time) ==
    LET held == {i \in 1..Len(c.entries) : c.entries[i].key = user_name}
        kept == IF held = {} /\ Len(c.entries) >= c.maxsize
                THEN Tail(c.entries) ELSE c.entries
        expires == IF held = {} THEN time + c.ttl
                   ELSE c.entries[CacheIndex(c, user_name)].expires
    IN [c EXCEPT !.entries =
           Append(StatsWithout(kept, user_name),
                  [key |-> user_name, value |-> stats, expires |-> expires])]

\* UserStatsCache.set: self._cache[user_name] = stats
StatsSet(c, user_name, stats, time) ==
    LET live == SelectSeq(c.entries, LAMBDA e : time < e.expires)
        keys == {live[i].key : i \in 1..Len(live)}
        kept == IF user_name \notin keys /\ Len(live) >= c.maxsize
                THEN Tail(live) ELSE live
    IN [c EXCEPT !.entries =
           Append(StatsWithout(kept, user_name),
                  [key |-> user_name, value |-> stats,
                   expires |-> time + c.ttl])]

\* UserStatsCache.invalidate: self._cache.pop(user_name, None)
StatsInvalidate(c, user_name, time) ==
    IF StatsLive(c, user_name, time)
    THEN [c EXCEPT !.entries = StatsWithout(c.entries, user_name)]
    ELSE c

(***************************************************************************)
(* app/persistence.py: ChatPersistence.  The operations are functions of   *)
(* the object's state p and of what the environment answers (env):         *)
(*   p = [client, collection_loaded, write_buffer, buffer_timestamps,      *)
(*        embedding_cache, db, ret, calls, dropped]                        *)
(* db is the collection in durable storage (a bag of rows); ret is the     *)
(* value the call returns; calls are the client.insert calls it made, each *)
(* [sid, data, ok]; dropped are the lists it discarded unwritten; value is *)
(* the list or the dict a read operation returns.                          *)
(*   env = [encode, load, insert]: whether embedding_model.encode,         *)
(*        client.load_collection and client.insert succeed (TRUE) or raise *)
(***************************************************************************)

\* the try block of flush_session with the buffer cleared before the insert
WriteBatchClearsFirst(p, session_id, env) ==
    LET data == p.write_buffer[session_id]
    IN [p EXCEPT
          !.collection_loaded = TRUE,
          !.calls = @ \cup {[sid |-> session_id, data |-> data,
                              ok |-> env.insert]},
          !.db = IF env.insert THEN @ (+) Rows(data) ELSE @,
          !.write_buffer = Remove(@, session_id),
          !.buffer_timestamps = Remove(@, session_id),
          !.ret = env.insert]

\* the try block of flush_session clearing both maps after the insert
WriteBatchClearsAll(p, session_id, env) ==
    LET data == p.write_buffer[session_id]
    IN [p EXCEPT
          !.collection_loaded = TRUE,
          !.calls = @ \cup {[sid |-> session_id, data |-> data,
                              ok |-> env.insert]},
          !.db = IF env.insert THEN @ (+) Rows(data) ELSE @,
          !.write_buffer = IF env.insert THEN EmptyDict ELSE @,
          !.buffer_timestamps = IF env.insert THEN EmptyDict ELSE @,
          !.ret = env.insert]

\* the try block of flush_session deleting the list and leaving its
\* timestamp behind
WriteBatchKeepsTimestamp(p, session_id, env) ==
    IF ~p.collection_loaded /\ ~env.load
    THEN [p EXCEPT !.ret = FALSE]
    ELSE LET data_to_insert == p.write_buffer[session_id]
             call == [sid |-> session_id, data |-> data_to_insert,
                      ok |-> env.insert]
         IN IF env.insert
            THEN [p EXCEPT
                    !.collection_loaded = TRUE,
                    !.calls = @ \cup {call},
                    !.db = @ (+) Rows(data_to_insert),
                    !.write_buffer = Remove(@, session_id),
                    !.ret = TRUE]
            ELSE [p EXCEPT
                    !.collection_loaded = TRUE,
                    !.calls = @ \cup {call},
                    !.ret = FALSE]

\* the try block of flush_session: load the collection if need be, insert the
\* list, and delete the list and its timestamp after the insert
WriteBatch(p, session_id, env) ==
    IF ~p.collection_loaded /\ ~env.load
    THEN \* load_collection raised: caught, nothing was submitted
         [p EXCEPT !.ret = FALSE]
    ELSE LET data_to_insert == p.write_buffer[session_id]
             call == [sid |-> session_id, data |-> data_to_insert,
                      ok |-> env.insert]
         IN IF env.insert
            THEN [p EXCEPT
                    !.collection_loaded = TRUE,
                    !.calls = @ \cup {call},
                    !.db = @ (+) Rows(data_to_insert),
                    !.write_buffer = Remove(@, session_id),
                    !.buffer_timestamps = Remove(@, session_id),
                    !.ret = TRUE]
            ELSE \* insert raised: caught, the buffer is left as it is
                 [p EXCEPT
                    !.collection_loaded = TRUE,
                    !.calls = @ \cup {call},
                    !.ret = FALSE]

\* flush_session reporting "nothing to flush" as a failure
FlushNothingIsFailure(p, session_id, env) ==
    IF ~p.client THEN [p EXCEPT !.ret = FALSE]
    ELSE IF session_id \notin DOMAIN p.write_buffer
            \/ p.write_buffer[session_id] = <<>>
    THEN [p EXCEPT !.ret = FALSE]
    ELSE WriteBatch(p, session_id, env)

\* ChatPersistence.flush_session
flush_session(p, session_id, env) ==
    IF ~p.client THEN [p EXCEPT !.ret = FALSE]
    ELSE IF session_id \notin DOMAIN p.write_buffer
            \/ p.write_buffer[session_id] = <<>>
    THEN \* nothing to do, considered success
         [p EXCEPT !.ret = TRUE]
    ELSE WriteBatch(p, session_id, env)

\* store_conversation flushing only above the batch size
StoreFlushesLate(p, session_id, text, time, env) ==
    LET got == CacheGet(p.embedding_cache, text)
        row == [session_id |-> session_id, timestamp |-> time,
                text |-> text, embedding |-> Encode(text)]
        p1 == [p EXCEPT !.embedding_cache =
                  IF got.value = None
                  THEN CacheSet(got.cache, text, Encode(text)) ELSE got.cache]
        old == IF session_id \in DOMAIN p.write_buffer
               THEN p.write_buffer[session_id] ELSE <<>>
        p2 == [p1 EXCEPT
                 !.write_buffer = Put(@, session_id, Append(old, row)),
                 !.buffer_timestamps =
                     IF session_id \in DOMAIN p.write_buffer THEN @
                     ELSE Put(@, session_id, time)]
    IN IF ~p.client \/ (got.value = None /\ ~env.encode)
       THEN [p EXCEPT !.ret = FALSE]
       ELSE IF Len(p2.write_buffer[session_id]) > BATCH_SIZE
       THEN flush_session(p2, session_id, env)
       ELSE [p2 EXCEPT !.ret = TRUE]

\* store_conversation invoking the embedding model before it looks into the
\* cache
StoreEncodesFirst(p, session_id, text, time, env) ==
    IF ~p.client THEN [p EXCEPT !.ret = FALSE]
    ELSE
    LET got == CacheGet(p.embedding_cache, text)
    IN IF ~env.encode
       THEN [p EXCEPT !.embedding_cache = got.cache, !.ret = FALSE,
                      !.encodes = 1]
       ELSE
       LET embedding == Encode(text)
           p1 == [p EXCEPT !.embedding_cache =
                     IF got.value = None
                     THEN CacheSet(got.cache, text, embedding)
                     ELSE got.cache,
                  !.encodes = 1]
           data_row == [session_id |-> session_id, timestamp |-> time,
                        text |-> text, embedding |-> embedding]
           fresh == session_id \notin DOMAIN p1.write_buffer
           old == IF fresh THEN <<>> ELSE p1.write_buffer[session_id]
           p2 == [p1 EXCEPT
                    !.write_buffer = Put(@, session_id, Append(old, data_row)),
                    !.buffer_timestamps =
                        IF fresh THEN Put(@, session_id, time) ELSE @]
       IN IF Len(p2.write_buffer[session_id]) >= BATCH_SIZE
          THEN flush_session(p2, session_id, env)
          ELSE [p2 EXCEPT !.ret = TRUE]

\* ChatPersistence.store_conversation
store_conversation(p, session_id, text, time, env) ==
    IF ~p.client THEN [p EXCEPT !.ret = FALSE]
    ELSE
    LET got == CacheGet(p.embedding_cache, text)
    IN IF got.value = None /\ ~env.encode
       THEN \* encode raised on the cache miss: caught, nothing is buffered
            [p EXCEPT !.embedding_cache = got.cache, !.ret = FALSE,
                      !.encodes = 1]
       ELSE
       LET embedding == IF got.value = None THEN Encode(text) ELSE got.value
           p1 == [p EXCEPT !.embedding_cache =
                     IF got.value = None
                     THEN CacheSet(got.cache, text, embedding)
                     ELSE got.cache,
                  !.encodes = IF got.value = None THEN 1 ELSE 0]
           \* the row: the fields derived from the session key, the clock,
           \* the two messages and the embedding
           data_row == [session_id |-> session_id, timestamp |-> time,
                        text |-> text, embedding |-> embedding]
           fresh == session_id \notin DOMAIN p1.write_buffer
           old == IF fresh THEN <<>> ELSE p1.write_buffer[session_id]
           p2 == [p1 EXCEPT
                    !.write_buffer = Put(@, session_id, Append(old, data_row)),
                    !.buffer_timestamps =
                        IF fresh THEN Put(@, session_id, time) ELSE @]
           current_buffer_size == Len(p2.write_buffer[session_id])
       IN IF current_buffer_size >= BATCH_SIZE
          THEN flush_session(p2, session_id, env)
          ELSE [p2 EXCEPT !.ret = TRUE]

\* the sessions whose list is older than the TTL at time current_time
StaleSessions(p, current_time) ==
    {s \in DOMAIN p.buffer_timestamps :
        current_time - p.buffer_timestamps[s] > BUFFER_TTL}

\* the loop over stale_sessions of cleanup_stale_buffers; envs[s] is what the
\* environment answers to the flush of session s
RECURSIVE SweepSessions(_, _, _)
SweepSessions(p, stale_sessions, envs) ==
    IF stale_sessions = {} THEN p
    ELSE LET session_id == CHOOSE s \in stale_sessions : TRUE
             flushed == flush_session(p, session_id, envs[session_id])
             success == flushed.ret
             after ==
                 IF success THEN flushed
                 ELSE [flushed EXCEPT
                         !.write_buffer =
                             IF session_id \in DOMAIN @
                             THEN Remove(@, session_id) ELSE @,
                         !.buffer_timestamps =
                             IF session_id \in DOMAIN @
                             THEN Remove(@, session_id) ELSE @,
                         !.dropped =
                             IF session_id \in DOMAIN flushed.write_buffer
                             THEN @ \cup {[sid |-> session_id,
                                           data |-> flushed.write_buffer[session_id]]}
                             ELSE @]
         IN SweepSessions(after, stale_sessions \ {session_id}, envs)

\* the sweep removing the stale lists without flushing them
SweepDropsUnflushed(p, current_time, envs) ==
    LET stale == StaleSessions(p, current_time)
    IN [p EXCEPT
          !.write_buffer = [s \in (DOMAIN @) \ stale |-> @[s]],
          !.buffer_timestamps = [s \in (DOMAIN @) \ stale |-> @[s]],
          !.dropped = {[sid |-> s, data |-> p.write_buffer[s]] :
                          s \in stale \cap DOMAIN p.write_buffer},
          !.ret = FALSE]

\* ChatPersistence.cleanup_stale_buffers (it returns None: ret is FALSE)
cleanup_stale_buffers(p, current_time, envs) ==
    IF DOMAIN p.buffer_timestamps = {} THEN [p EXCEPT !.ret = FALSE]
    ELSE [SweepSessions(p, StaleSessions(p, current_time), envs)
            EXCEPT !.ret = FALSE]

(***************************************************************************)
(* The read operations.  The rows of the model carry no user name and no   *)
(* intent: all of them are rows of the one user asked for, fewer than the  *)
(* limit of the query.  query_ok tells whether client.query answers (TRUE) *)
(* or raises.                                                              *)
(***************************************************************************)
\* the rows of a sequence, as a bag
SeqBag(h) ==
    LET range == {h[i] : i \in 1..Len(h)}
    IN [r \in range |-> Cardinality({i \in 1..Len(h) : h[i] = r})]

\* what client.query can answer: the rows of the collection in any order
QueryResults(db_rows) ==
    LET n == BagCardinality(db_rows)
    IN {h \in [1..n -> BagToSet(db_rows)] : SeqBag(h) = db_rows}

\* sorted(results, key=lambda x: x.get('timestamp', '')): a stable sort
RECURSIVE SortedByTimestamp(_)
SortedByTimestamp(results) ==
    IF results = <<>> THEN <<>>
    ELSE LET least == CHOOSE i \in 1..Len(results) :
                         \A j \in 1..Len(results) :
                            \/ results[i].timestamp < results[j].timestamp
                            \/ /\ results[i].timestamp = results[j].timestamp
                               /\ i <= j
             rest == [k \in 1..(Len(results) - 1) |->
                         IF k < least THEN results[k] ELSE results[k + 1]]
         IN <<results[least]>> \o SortedByTimestamp(rest)

\* ChatPersistence.get_user_history: the list returned
get_user_history(p, results, query_ok) ==
    IF ~p.client THEN [p EXCEPT !.value = <<>>]
    ELSE IF ~query_ok THEN [p EXCEPT !.value = <<>>]
    ELSE [p EXCEPT !.value = SortedByTimestamp(results)]

\* the dict returned for a user without rows; "Never" is the time -1
NoTurnsStats == << <<"total_turns", 0>>, <<"last_active", -1>> >>

\* get_user_stats without the test of the client
StatsWithoutClientTest(p, results, query_ok) ==
    IF ~query_ok THEN [p EXCEPT !.value = EmptyDict]
    ELSE IF results = <<>> THEN [p EXCEPT !.value = NoTurnsStats]
    ELSE [p EXCEPT !.value =
             << <<"total_turns", Len(results)>>,
                <<"last_active", results[Len(results)].timestamp>> >>]

\* ChatPersistence.get_user_stats: the dict returned, as its items
get_user_stats(p, results, query_ok) ==
    IF ~p.client THEN [p EXCEPT !.value = EmptyDict]
    ELSE IF ~query_ok THEN [p EXCEPT !.value = EmptyDict]
    ELSE IF results = <<>> THEN [p EXCEPT !.value = NoTurnsStats]
    ELSE [p EXCEPT !.value =
             << <<"total_turns", Len(results)>>,
                <<"last_active", results[Len(results)].timestamp>> >>]

(***************************************************************************)
(* State.                                                                  *)
(***************************************************************************)
VARIABLES
    client,             \* TRUE iff self.client is not None
    collection_loaded,  \* self.collection_loaded
    write_buffer,       \* self.write_buffer: session key -> list of rows
    buffer_timestamps,  \* self.buffer_timestamps: session key -> time
    embedding_cache,    \* self.embedding_cache
    db,                 \* the rows in the Milvus collection
    now,                \* time.time()
    last,               \* the last call: [op, sid, ret, calls, dropped,
                        \* value, encodes], encodes the number of times it
                        \* invoked the embedding model
    threads,            \* the calls in progress, one record per thread
    started,            \* the number of calls the worker threads were given
    acked,              \* the rows of the store_conversation calls that
                        \* returned True while calls overlap
    discarded,          \* the rows the sweep removed after a failed flush
                        \* while calls overlap
    active_streams,     \* main.active_streams: stream id -> its Event
    stream_timestamps,  \* main.stream_timestamps: stream id -> time
    cancel_set,         \* the Event objects that are set
    last_cancel,        \* the answer to the last /chat/cancel request:
                        \* [id, status, late, during]
    turn,               \* the streaming turn: [pc, kind, full_bot_response,
                        \* detected_intent, disconnected]
    engine,             \* the engine's generator: [pc, consumed, tools],
                        \* tools the names of the on_tool_start events its
                        \* loop has handled, where they are followed
    chan,               \* between the engine and its consumer: [state, item]
    emitted,            \* the events the engine has yielded
    delivered,          \* the SSE blocks sent to the client
    spawned,            \* the tasks started by the stream's cleanup
    others,             \* the streaming turns of other clients, of which
                        \* only the registry entries are followed: stream id
                        \* -> "none", "open" (registered) or "ended"
    router,             \* the agent graph in one run: [node, next,
                        \* tool_calls, raised]
    path,               \* the last nodes the graph has run, newest last
    chat,               \* the non-streaming turns of /chat: [pc, n,
                        \* response], n the number of turns so far
    tool_call,          \* the last call of booking_agent_tool: [result,
                        \* failed, ops, time, reschedule], failed the
                        \* operation that raised in it, if one did, ops the
                        \* calendar operations it awaited, with their
                        \* outcomes, in order
    memory,             \* the messages of the conversation threads: what the
                        \* graph's checkpointer holds for every thread_id
                        \* (saved) and the run in progress (thread, node,
                        \* state, sub, input), with the number of turns so
                        \* far, the thread of each, and the state each
                        \* thread's last turn ended with (prev)
    cache_call,         \* the calls on an EmbeddingCache of its own: the last
                        \* one [op, text, value], the texts set so far
                        \* (was_set), the same in the order of their latest
                        \* set (order), and the number of get calls (gets)
    system_message_cache,
                        \* langgraph_graph.system_message_cache
    stats_cache,        \* main.stats_cache
    stats_call          \* the calls on the stats cache: the last one
                        \* [op, user, value], for every user the time and
                        \* the value of the latest set while it is younger
                        \* than the TTL and not invalidated (latest), and
                        \* the users ever set (ever)

persVars == <<client, collection_loaded, write_buffer, buffer_timestamps,
              embedding_cache, db, now, last>>

concVars == <<threads, started, acked, discarded>>

streamVars == <<active_streams, stream_timestamps, cancel_set, last_cancel,
                turn, engine, chan, emitted, delivered, spawned, others>>

routeVars == <<router, path, chat, memory, tool_call>>

cacheVars == <<cache_call, system_message_cache, stats_cache, stats_call>>

vars == <<persVars, concVars, streamVars, routeVars, cacheVars>>

\* the threads: 0 is the event loop, which runs the sweep task, the others are
\* the worker threads of asyncio.to_thread
Threads == 0..NWorkers

\* no event in the hands of the consumer
NoItem == [type |-> "none", content |-> ""]

\* a thread that is not in a call
NoRow == [session_id |-> 0, timestamp |-> 0, text |-> 0, embedding |-> None]

NoData == [att |-> FALSE, rows |-> <<>>]

Idle == [pc |-> "idle", caller |-> "none", sid |-> 0, text |-> 0,
         row |-> NoRow, data |-> NoData, stale |-> {}, ret |-> ""]

\* the result of a call that an asyncio task awaits (asyncio.to_thread):
\* "pending" while the call runs, then what the call returned
Result(th, ok) ==
    IF th.ret = "" THEN Idle
    ELSE [Idle EXCEPT !.ret = IF ok THEN "True" ELSE "False"]

\* what the environment can answer to a call; load_collection is only called
\* while the collection is not loaded
LoadAnswers == IF collection_loaded THEN {TRUE} ELSE BOOLEAN

Envs == [encode : BOOLEAN, load : LoadAnswers, insert : BOOLEAN]

FlushEnvs == [encode : {TRUE}, load : LoadAnswers, insert : BOOLEAN]

NoCall == [op |-> "none", sid |-> 0, ret |-> FALSE, calls |-> {}, dropped |-> {},
           value |-> <<>>, encodes |-> 0]

\* the object's state as the operations take it
PState ==
    [client |-> client, collection_loaded |-> collection_loaded,
     write_buffer |-> write_buffer, buffer_timestamps |-> buffer_timestamps,
     embedding_cache |-> embedding_cache, db |-> db,
     ret |-> FALSE, calls |-> {}, dropped |-> {}, value |-> <<>>,
     encodes |-> 0]

\* the call "op" on session "sid" took the object to r
Returns(op, sid, r) ==
    /\ collection_loaded' = r.collection_loaded
    /\ write_buffer' = r.write_buffer
    /\ buffer_timestamps' = r.buffer_timestamps
    /\ embedding_cache' = r.embedding_cache
    /\ db' = r.db
    /\ last' = [op |-> op, sid |-> sid, ret |-> r.ret, calls |-> r.calls,
                dropped |-> r.dropped, value |-> r.value,
                encodes |-> r.encodes]
    /\ UNCHANGED <<client, now>>
    /\ UNCHANGED <<concVars, streamVars, routeVars, cacheVars>>

\* the stream id (session_id) of the turn that is followed event by event,
\* and the ids of all streaming turns, which are also the ids a client may
\* send to /chat/cancel
TurnId == 1

StreamIds == {1, 2}

\* the agent graph before a run: no node has run, state["next"] is ""
NoRun == [node |-> "START", next |-> "", inner |-> "none",
          tool_calls |-> FALSE]

\* booking_agent_tool has not been called
NoToolCall == [result |-> [kind |-> "none", text |-> <<>>],
               failed |-> "none", ops |-> <<>>, time |-> "",
               reschedule |-> FALSE]

\* the conversation threads
ThreadIds == 1..NThreads

\* no turn yet: the checkpointer holds nothing for any thread_id
NoMemory == [saved |-> [t \in ThreadIds |-> <<>>],
             thread |-> 0, node |-> "none", state |-> <<>>, sub |-> <<>>,
             input |-> <<>>, steps |-> 0,
             turns |-> 0, of |-> <<>>,
             prev |-> [t \in ThreadIds |-> <<>>]]

\* no non-streaming turn yet
NoChat == [pc |-> "idle", n |-> 0,
           response |-> [kind |-> "none", bot_response |-> "",
                         intent |-> ""]]

NoCacheCall == [op |-> "none", text |-> 0, value |-> None, was_set |-> {},
                order |-> <<>>, gets |-> 0]

\* the user names of the stats cache
StatsUsers == 1..(MaxStatsSize + 1)

\* the stats dicts given to set (a dict, possibly {}, but never None)
StatsValues == {<<0>>, <<1>>}

NoStatsCall == [op |-> "none", user |-> 0, value |-> None,
                latest |-> [u \in StatsUsers |-> [at |-> 0, value |-> None]],
                ever |-> {}]

\* the state after construction, but for the embedding cache
InitRest ==
    /\ client \in BOOLEAN
    /\ collection_loaded \in (IF client THEN BOOLEAN ELSE {FALSE})
    /\ write_buffer = EmptyDict
    /\ buffer_timestamps = EmptyDict
    /\ db = EmptyBag
    /\ now = 0
    /\ last = NoCall
    /\ threads = [t \in Threads |-> Idle]
    /\ started = 0
    /\ acked = {}
    /\ discarded = {}
    /\ active_streams = EmptyDict
    /\ stream_timestamps = EmptyDict
    /\ cancel_set = {}
    /\ last_cancel = [id |-> 0, status |-> "none", late |-> FALSE,
                      during |-> {}]
    /\ turn = [pc |-> "none", kind |-> "none", full_bot_response |-> <<>>,
               detected_intent |-> "general", disconnected |-> FALSE,
               current_session_id |-> 0]
    /\ engine = [pc |-> "unstarted", consumed |-> 0, tools |-> <<>>]
    /\ chan = [state |-> "idle", item |-> NoItem]
    /\ emitted = <<>>
    /\ delivered = <<>>
    /\ spawned = <<>>
    /\ others = [id \in StreamIds \ {TurnId} |-> "none"]
    /\ router = NoRun
    /\ path = <<>>
    /\ chat = NoChat
    /\ memory = NoMemory
    /\ tool_call = NoToolCall
    /\ cache_call = NoCacheCall

Init ==
    /\ embedding_cache = NewCache(CacheSize)
    /\ system_message_cache = NewSystemMessageCache(MaxCacheSize)
    /\ stats_cache = NewStatsCache(MaxStatsTTL, MaxStatsSize)
    /\ stats_call = NoStatsCall
    /\ InitRest

\* the store_conversation calls made so far (each makes one cache lookup)
StoreCalls == embedding_cache.hits + embedding_cache.misses

\* a call of store_conversation
StoreConversation(session_id, text) ==
    \E r \in {store_conversation(PState, session_id, text, now, env) :
                env \in Envs} :
        Returns("store", session_id, r)

\* a call of flush_session
FlushSession(session_id) ==
    \E r \in {flush_session(PState, session_id, env) : env \in FlushEnvs} :
        Returns("flush", session_id, r)

\* one round of the sweep task: persistence.cleanup_stale_buffers()
CleanupStaleBuffers ==
    \E r \in {cleanup_stale_buffers(PState, now, envs) :
                 envs \in [StaleSessions(PState, now) -> FlushEnvs]} :
        Returns("cleanup", 0, r)

\* a call of get_user_history
GetUserHistory ==
    \E results \in QueryResults(db), query_ok \in BOOLEAN :
        Returns("history", 0, get_user_history(PState, results, query_ok))

\* a call of get_user_stats
GetUserStats ==
    \E results \in QueryResults(db), query_ok \in BOOLEAN :
        Returns("stats", 0, get_user_stats(PState, results, query_ok))

\* time passes
Tick ==
    /\ now < MaxTime
    /\ now' = now + 1
    /\ UNCHANGED <<client, collection_loaded, write_buffer, buffer_timestamps,
                   embedding_cache, db, last>>
    /\ UNCHANGED <<concVars, streamVars, routeVars, cacheVars>>

\* The number of calls is bounded, and a row is only accepted while the
\* model's clock can still run past its TTL, so that every list gets stale.
Next ==
    \/ \E s \in Sessions, t \in Texts :
          /\ StoreCalls < MaxStores
          /\ now + BUFFER_TTL < MaxTime
          /\ StoreConversation(s, t)
    \/ \E s \in Sessions : FlushSession(s)
    \/ CleanupStaleBuffers
    \/ Tick

Spec == Init /\ [][Next]_vars

NextBatch ==
    \/ \E s \in Sessions, t \in Texts :
          /\ StoreCalls < MaxBatchStores
          /\ StoreConversation(s, t)
    \/ \E s \in Sessions : FlushSession(s)

SpecBatch == Init /\ [][NextBatch]_vars

\* the texts of SpecEmbed: one more than the embedding cache holds
EmbedTexts == 1..(CacheSize + 1)

\* store_conversation calls with repeated and with different texts, under
\* both session keys, and flushes
NextEmbed ==
    \/ \E s \in Sessions, t \in EmbedTexts :
          /\ StoreCalls < MaxStores
          /\ StoreConversation(s, t)
    \/ \E s \in Sessions : FlushSession(s)

SpecEmbed == Init /\ [][NextEmbed]_vars

\* the calls of Spec and the read operations
NextRead ==
    \/ Next
    \/ GetUserHistory
    \/ GetUserStats

SpecRead == Init /\ [][NextRead]_vars

(***************************************************************************)
(* The same calls running at the same time.  Nothing in ChatPersistence    *)
(* takes a lock: store_conversation and flush_session run on the worker    *)
(* threads of asyncio.to_thread, cleanup_stale_buffers on the event loop,  *)
(* and a thread can be preempted between any two statements.  One action   *)
(* per statement, named after its line in app/persistence.py; a thread is  *)
(*   [pc, caller, sid, text, row, data, stale]                             *)
(* caller is the call it runs ("store", "flush", "cleanup"), text and row  *)
(* the turn and the data_row of a store, stale the stale_sessions of the   *)
(* sweep still to do,                                                      *)
(* data the local data_to_insert of flush_session.  data_to_insert is the  *)
(* list object itself, not a copy: while the key still maps to that list   *)
(* it is read through write_buffer ([att |-> TRUE]); once the key is       *)
(* deleted or given another list the thread holds the last reference, to   *)
(* the rows the list had then ([att |-> FALSE, rows |-> ...]).             *)
(* Time is kept relative: the clock stays at 0 and a tick moves every      *)
(* timestamp one tick into the past, no further than past the TTL.         *)
(***************************************************************************)
\* the session key the overlapping calls work on
ConcSession == 1

Workers == 1..NWorkers

At(t, pc) == threads[t].pc = pc

\* the key k stops mapping to its list: the threads that hold the list as
\* data_to_insert keep it with the rows it has
Detach(th, k) ==
    [t \in Threads |->
        IF th[t].data.att /\ th[t].sid = k
        THEN [th[t] EXCEPT !.data = [att |-> FALSE, rows |-> write_buffer[k]]]
        ELSE th[t]]

\* flush_session returns ok to the call that made it
Cont(th, ok) ==
    IF th.caller = "cleanup"
    THEN IF ok THEN [th EXCEPT !.pc = "c296", !.sid = 0, !.data = NoData]
         ELSE [th EXCEPT !.pc = "c303", !.data = NoData]
    ELSE Result(th, ok)

FlushReturn(t, th, ok) ==
    /\ threads' = [th EXCEPT ![t] = Cont(th[t], ok)]
    /\ acked' = IF th[t].caller = "store" /\ ok
                THEN acked \cup {th[t].row} ELSE acked

\* store_conversation returns ok
StoreReturn(t, ok) ==
    /\ threads' = [threads EXCEPT ![t] = Result(threads[t], ok)]
    /\ acked' = IF ok THEN acked \cup {threads[t].row} ELSE acked

\* a worker thread is given a store_conversation call, for a new turn
CallStore(t) ==
    /\ t \in Workers /\ At(t, "idle") /\ started < MaxConcCalls
    /\ started' = started + 1
    /\ threads' = [threads EXCEPT ![t] =
          [Idle EXCEPT !.pc = "s124", !.caller = "store",
                       !.sid = ConcSession, !.text = started + 1]]
    /\ UNCHANGED <<persVars, acked, discarded>>
    /\ UNCHANGED <<streamVars, routeVars, cacheVars>>

\* a worker thread is given a flush_session call
CallFlush(t) ==
    /\ t \in Workers /\ At(t, "idle") /\ started < MaxConcCalls
    /\ started' = started + 1
    /\ threads' = [threads EXCEPT ![t] =
          [Idle EXCEPT !.pc = "f191", !.caller = "flush",
                       !.sid = ConcSession]]
    /\ UNCHANGED <<persVars, acked, discarded>>
    /\ UNCHANGED <<streamVars, routeVars, cacheVars>>

\* the sweep task wakes up and calls cleanup_stale_buffers
CallCleanup ==
    /\ At(0, "idle")
    /\ threads' = [threads EXCEPT ![0] =
          [Idle EXCEPT !.pc = "c286", !.caller = "cleanup"]]
    /\ UNCHANGED <<persVars, started, acked, discarded>>
    /\ UNCHANGED <<streamVars, routeVars, cacheVars>>

\* 124: if not self.client: return False
S124(t) ==
    /\ At(t, "s124")
    /\ IF client
       THEN /\ threads' = [threads EXCEPT ![t].pc = "s132"]
            /\ UNCHANGED acked
       ELSE StoreReturn(t, FALSE)
    /\ UNCHANGED <<persVars, started, discarded>>
    /\ UNCHANGED <<streamVars, routeVars, cacheVars>>

\* 129-160: the embedding from the cache or the model, and the data_row;
\* the turn's text is the number of the call
S132(t) ==
    /\ At(t, "s132")
    /\ LET text == threads[t].text
           got == CacheGet(embedding_cache, text)
       IN \/ /\ got.value = None
             /\ embedding_cache' = got.cache
             /\ StoreReturn(t, FALSE)
          \/ LET embedding == IF got.value = None THEN Encode(text)
                              ELSE got.value
             IN /\ embedding_cache' =
                      IF got.value = None
                      THEN CacheSet(got.cache, text, embedding)
                      ELSE got.cache
                /\ threads' = [threads EXCEPT
                      ![t].pc = "s163",
                      ![t].row = [session_id |-> threads[t].sid,
                                  timestamp |-> now, text |-> text,
                                  embedding |-> embedding]]
                /\ UNCHANGED acked
    /\ UNCHANGED <<client, collection_loaded, write_buffer, buffer_timestamps,
                   db, now, last, started, discarded>>
    /\ UNCHANGED <<streamVars, routeVars, cacheVars>>

\* 163: if session_id not in self.write_buffer
S163(t) ==
    /\ At(t, "s163")
    /\ threads' = [threads EXCEPT ![t].pc =
          IF threads[t].sid \notin DOMAIN write_buffer THEN "s164" ELSE "s168"]
    /\ UNCHANGED <<persVars, started, acked, discarded>>
    /\ UNCHANGED <<streamVars, routeVars, cacheVars>>

\* 164: self.write_buffer[session_id] = []
S164(t) ==
    /\ At(t, "s164")
    /\ LET k == threads[t].sid
           th == IF k \in DOMAIN write_buffer THEN Detach(threads, k)
                 ELSE threads
       IN /\ write_buffer' = Put(write_buffer, k, <<>>)
          /\ threads' = [th EXCEPT ![t].pc = "s165"]
    /\ UNCHANGED <<client, collection_loaded, buffer_timestamps,
                   embedding_cache, db, now, last, started, acked, discarded>>
    /\ UNCHANGED <<streamVars, routeVars, cacheVars>>

\* 165: self.buffer_timestamps[session_id] = time.time()
S165(t) ==
    /\ At(t, "s165")
    /\ buffer_timestamps' = Put(buffer_timestamps, threads[t].sid, now)
    /\ threads' = [threads EXCEPT ![t].pc = "s168"]
    /\ UNCHANGED <<client, collection_loaded, write_buffer, embedding_cache,
                   db, now, last, started, acked, discarded>>
    /\ UNCHANGED <<streamVars, routeVars, cacheVars>>

\* 168: self.write_buffer[session_id].append(data_row); a KeyError is caught
\* at 181 and the call returns False
S168(t) ==
    /\ At(t, "s168")
    /\ LET k == threads[t].sid
       IN IF k \in DOMAIN write_buffer
          THEN /\ write_buffer' =
                     Put(write_buffer, k, Append(write_buffer[k], threads[t].row))
               /\ threads' = [threads EXCEPT ![t].pc = "s169"]
               /\ UNCHANGED acked
          ELSE /\ StoreReturn(t, FALSE)
               /\ UNCHANGED write_buffer
    /\ UNCHANGED <<client, collection_loaded, buffer_timestamps,
                   embedding_cache, db, now, last, started, discarded>>
    /\ UNCHANGED <<streamVars, routeVars, cacheVars>>

\* 169-179: current_buffer_size = len(self.write_buffer[session_id]); at the
\* batch size return self.flush_session(session_id), otherwise return True
S169(t) ==
    /\ At(t, "s169")
    /\ LET k == threads[t].sid
       IN IF k \notin DOMAIN write_buffer
          THEN StoreReturn(t, FALSE)
          ELSE IF Len(write_buffer[k]) >= BATCH_SIZE
          THEN /\ threads' = [threads EXCEPT ![t].pc = "f191"]
               /\ UNCHANGED acked
          ELSE StoreReturn(t, TRUE)
    /\ UNCHANGED <<persVars, started, discarded>>
    /\ UNCHANGED <<streamVars, routeVars, cacheVars>>

\* 191: if not self.client: return False
F191(t) ==
    /\ At(t, "f191")
    /\ IF client
       THEN /\ threads' = [threads EXCEPT ![t].pc = "f195"]
            /\ UNCHANGED acked
       ELSE FlushReturn(t, threads, FALSE)
    /\ UNCHANGED <<persVars, started, discarded>>
    /\ UNCHANGED <<streamVars, routeVars, cacheVars>>

\* 195: if session_id not in self.write_buffer or not
\* self.write_buffer[session_id]: return True
F195(t) ==
    /\ At(t, "f195")
    /\ LET k == threads[t].sid
       IN IF k \notin DOMAIN write_buffer \/ write_buffer[k] = <<>>
          THEN FlushReturn(t, threads, TRUE)
          ELSE /\ threads' = [threads EXCEPT ![t].pc = "f200"]
               /\ UNCHANGED acked
    /\ UNCHANGED <<persVars, started, discarded>>
    /\ UNCHANGED <<streamVars, routeVars, cacheVars>>

\* 200: data_to_insert = self.write_buffer[session_id]; a KeyError is caught
\* at 224 and the call returns False
F200(t) ==
    /\ At(t, "f200")
    /\ LET k == threads[t].sid
       IN IF k \in DOMAIN write_buffer
          THEN /\ threads' = [threads EXCEPT
                     ![t].pc = "f206",
                     ![t].data = [att |-> TRUE, rows |-> <<>>]]
               /\ UNCHANGED acked
          ELSE FlushReturn(t, threads, FALSE)
    /\ UNCHANGED <<persVars, started, discarded>>
    /\ UNCHANGED <<streamVars, routeVars, cacheVars>>

\* 206-208: if not self.collection_loaded: load_collection, which may raise
F206(t) ==
    /\ At(t, "f206")
    /\ \/ /\ collection_loaded' = TRUE
          /\ threads' = [threads EXCEPT ![t].pc = "f211"]
          /\ UNCHANGED acked
       \/ /\ ~collection_loaded
          /\ UNCHANGED collection_loaded
          /\ FlushReturn(t, threads, FALSE)
    /\ UNCHANGED <<client, write_buffer, buffer_timestamps, embedding_cache,
                   db, now, last, started, discarded>>
    /\ UNCHANGED <<streamVars, routeVars, cacheVars>>

\* the rows of the list a thread holds as data_to_insert
DataToInsert(t) ==
    IF threads[t].data.att THEN write_buffer[threads[t].sid]
    ELSE threads[t].data.rows

\* 211: self.client.insert(data=data_to_insert), which may raise
F211(t) ==
    /\ At(t, "f211")
    /\ \/ /\ db' = db (+) Rows(DataToInsert(t))
          /\ threads' = [threads EXCEPT ![t].pc = "f220"]
          /\ UNCHANGED acked
       \/ /\ UNCHANGED db
          /\ FlushReturn(t, threads, FALSE)
    /\ UNCHANGED <<client, collection_loaded, write_buffer, buffer_timestamps,
                   embedding_cache, now, last, started, discarded>>
    /\ UNCHANGED <<streamVars, routeVars, cacheVars>>

\* 220: del self.write_buffer[session_id]; a KeyError is caught at 224 and
\* the call returns False
F220(t) ==
    /\ At(t, "f220")
    /\ LET k == threads[t].sid
       IN IF k \in DOMAIN write_buffer
          THEN /\ write_buffer' = Remove(write_buffer, k)
               /\ threads' = [Detach(threads, k) EXCEPT ![t].pc = "f221"]
               /\ UNCHANGED acked
          ELSE /\ UNCHANGED write_buffer
               /\ FlushReturn(t, threads, FALSE)
    /\ UNCHANGED <<client, collection_loaded, buffer_timestamps,
                   embedding_cache, db, now, last, started, discarded>>
    /\ UNCHANGED <<streamVars, routeVars, cacheVars>>

\* 221-222: self.buffer_timestamps.pop(session_id, None); return True
F221(t) ==
    /\ At(t, "f221")
    /\ buffer_timestamps' =
          IF threads[t].sid \in DOMAIN buffer_timestamps
          THEN Remove(buffer_timestamps, threads[t].sid)
          ELSE buffer_timestamps
    /\ FlushReturn(t, threads, TRUE)
    /\ UNCHANGED <<client, collection_loaded, write_buffer, embedding_cache,
                   db, now, last, started, discarded>>
    /\ UNCHANGED <<streamVars, routeVars, cacheVars>>

\* 286-294: return if buffer_timestamps is empty, else collect stale_sessions
C286 ==
    /\ At(0, "c286")
    /\ threads' = [threads EXCEPT ![0] =
          IF DOMAIN buffer_timestamps = {} THEN Idle
          ELSE [@ EXCEPT !.pc = "c296",
                         !.stale = StaleSessions(PState, now)]]
    /\ UNCHANGED <<persVars, started, acked, discarded>>
    /\ UNCHANGED <<streamVars, routeVars, cacheVars>>

\* 296-299: the next stale session, success = self.flush_session(session_id)
C296 ==
    /\ At(0, "c296")
    /\ threads' = [threads EXCEPT ![0] =
          IF @.stale = {} THEN Idle
          ELSE LET session_id == CHOOSE k \in @.stale : TRUE
               IN [@ EXCEPT !.pc = "f191", !.sid = session_id,
                            !.stale = @ \ {session_id}]]
    /\ UNCHANGED <<persVars, started, acked, discarded>>
    /\ UNCHANGED <<streamVars, routeVars, cacheVars>>

\* 303: self.write_buffer.pop(session_id, None), after a failed flush
C303 ==
    /\ At(0, "c303")
    /\ LET k == threads[0].sid
       IN IF k \in DOMAIN write_buffer
          THEN /\ write_buffer' = Remove(write_buffer, k)
               /\ discarded' = discarded \cup
                     {write_buffer[k][i] : i \in 1..Len(write_buffer[k])}
               /\ threads' = [Detach(threads, k) EXCEPT ![0].pc = "c304"]
          ELSE /\ threads' = [threads EXCEPT ![0].pc = "c304"]
               /\ UNCHANGED <<write_buffer, discarded>>
    /\ UNCHANGED <<client, collection_loaded, buffer_timestamps,
                   embedding_cache, db, now, last, started, acked>>
    /\ UNCHANGED <<streamVars, routeVars, cacheVars>>

\* 304: self.buffer_timestamps.pop(session_id, None)
C304 ==
    /\ At(0, "c304")
    /\ buffer_timestamps' =
          IF threads[0].sid \in DOMAIN buffer_timestamps
          THEN Remove(buffer_timestamps, threads[0].sid)
          ELSE buffer_timestamps
    /\ threads' = [threads EXCEPT ![0].pc = "c296", ![0].sid = 0]
    /\ UNCHANGED <<client, collection_loaded, write_buffer, embedding_cache,
                   db, now, last, started, acked, discarded>>
    /\ UNCHANGED <<streamVars, routeVars, cacheVars>>

\* a tick passes: every timestamp is one tick older
ConcTick ==
    /\ \E k \in DOMAIN buffer_timestamps :
          now - buffer_timestamps[k] <= BUFFER_TTL
    /\ buffer_timestamps' =
          [k \in DOMAIN buffer_timestamps |->
              IF now - buffer_timestamps[k] <= BUFFER_TTL
              THEN buffer_timestamps[k] - 1 ELSE buffer_timestamps[k]]
    /\ UNCHANGED <<client, collection_loaded, write_buffer, embedding_cache,
                   db, now, last, concVars>>
    /\ UNCHANGED <<streamVars, routeVars, cacheVars>>

\* the next statement of the call a thread is in
Step(t) ==
    \/ S124(t) \/ S132(t) \/ S163(t) \/ S164(t) \/ S165(t) \/ S168(t)
    \/ S169(t)
    \/ F191(t) \/ F195(t) \/ F200(t) \/ F206(t) \/ F211(t) \/ F220(t)
    \/ F221(t)

\* the next statement of the sweep task
SweepStep == CallCleanup \/ C286 \/ C296 \/ C303 \/ C304 \/ Step(0)

NextConc ==
    \/ \E t \in Workers : CallStore(t) \/ CallFlush(t) \/ Step(t)
    \/ SweepStep
    \/ ConcTick

SpecConc == Init /\ [][NextConc]_vars

\* every call in progress goes on to its end, the sweep task never stops and
\* time does not stand still
SpecConcFair ==
    /\ SpecConc
    /\ \A t \in Workers : WF_vars(Step(t))
    /\ WF_vars(SweepStep)
    /\ WF_vars(ConcTick)

(***************************************************************************)
(* app/langgraph_graph.py, app/main.py: one streaming turn.  The engine    *)
(* process_user_message_with_context_streaming is an async generator: it   *)
(* runs only while its consumer awaits the next item (chan.state is        *)
(* "demand"), and stops at each yield ("item") or at its end ("stop").     *)
(* The consumer is the /chat endpoint (sse_streamer inside                 *)
(* stream_and_cleanup, kind "sse"), or a caller that reads the engine      *)
(* itself to its end, as verify_streaming.py does (kind "direct", without  *)
(* a cancel_flag).  An Event object is named after the stream id it was    *)
(* created for.                                                            *)
(***************************************************************************)
Terminal == {"done", "cancelled", "error"}

Item(type, content) == [type |-> type, content |-> content]

\* the low-level events of graph.astream_events: [event, name, content],
\* content being the content of data.chunk
LowLevelEvents ==
    {[event |-> "on_chat_model_stream", name |-> "ChatOpenAI", content |-> c] :
        c \in {"", "tok"}}
    \cup {[event |-> "on_tool_start", name |-> n, content |-> ""] :
            n \in {"booking_agent_tool", "_Exception", "LangGraph", ""}}
    \cup {[event |-> "on_chain_end", name |-> "supervisor", content |-> ""]}

\* the body of the engine's loop without the check of cancel_flag
EngineIgnoresCancel(is_set, event) ==
    IF event.event = "on_chat_model_stream"
    THEN IF event.content # ""
         THEN [out |-> Item("token", event.content), pc |-> "loop"]
         ELSE [out |-> NoItem, pc |-> "loop"]
    ELSE IF event.event = "on_tool_start"
    THEN IF event.name # "" /\ event.name \notin {"_Exception", "LangGraph"}
         THEN [out |-> Item("intent", event.name), pc |-> "loop"]
         ELSE [out |-> NoItem, pc |-> "loop"]
    ELSE [out |-> NoItem, pc |-> "loop"]

\* the body of the engine's loop with a tool branch that tests nothing but
\* the presence of a name
EngineAnnouncesAll(is_set, event) ==
    IF is_set
    THEN [out |-> Item("cancelled", "Stream cancelled"), pc |-> "atCancelled"]
    ELSE IF event.event = "on_chat_model_stream"
    THEN IF event.content # ""
         THEN [out |-> Item("token", event.content), pc |-> "loop"]
         ELSE [out |-> NoItem, pc |-> "loop"]
    ELSE IF event.event = "on_tool_start"
    THEN IF event.name # ""
         THEN [out |-> Item("intent", event.name), pc |-> "loop"]
         ELSE [out |-> NoItem, pc |-> "loop"]
    ELSE [out |-> NoItem, pc |-> "loop"]

\* the body of the engine's loop for one low-level event: what it yields, if
\* anything, and where the generator stands afterwards; is_set is
\* cancel_flag and cancel_flag.is_set()
EngineOnEvent(is_set, event) ==
    IF is_set
    THEN [out |-> Item("cancelled", "Stream cancelled"), pc |-> "atCancelled"]
    ELSE IF event.event = "on_chat_model_stream"
    THEN IF event.content # ""
         THEN [out |-> Item("token", event.content), pc |-> "loop"]
         ELSE [out |-> NoItem, pc |-> "loop"]
    ELSE IF event.event = "on_tool_start"
    THEN IF event.name # "" /\ event.name \notin {"_Exception", "LangGraph"}
         THEN [out |-> Item("intent", event.name), pc |-> "loop"]
         ELSE [out |-> NoItem, pc |-> "loop"]
    ELSE [out |-> NoItem, pc |-> "loop"]

\* the SSE block of a chunk: f"data: {json_data}\n\n"
SseBlock(chunk) == <<"data: ", chunk, "\n\n">>

\* json.loads(chunk_string[6:].strip())
ParseBlock(chunk_string) == chunk_string[2]

\* sse_streamer going on after a terminal chunk
SseNeverBreaks(chunk, dumps_ok) ==
    IF dumps_ok
    THEN [blocks |-> <<SseBlock(chunk)>>, stop |-> FALSE]
    ELSE [blocks |-> <<SseBlock(Item("error", "Internal streaming error"))>>,
          stop |-> TRUE]

\* sse_streamer for one chunk of the engine: the blocks it yields and
\* whether it leaves its loop; dumps_ok is FALSE when json.dumps raises
sse_streamer(chunk, dumps_ok) ==
    IF dumps_ok
    THEN [blocks |-> <<SseBlock(chunk)>>, stop |-> chunk.type \in Terminal]
    ELSE [blocks |-> <<SseBlock(Item("error", "Internal streaming error"))>>,
          stop |-> TRUE]

\* the engine was given the Event of the turn and it is set
FlagSet == turn.kind = "sse" /\ TurnId \in cancel_set

\* the engine yields an item, or goes on without one
EngineYields(r) ==
    /\ emitted' = IF r.out = NoItem THEN emitted ELSE Append(emitted, r.out)
    /\ chan' = IF r.out = NoItem THEN chan
               ELSE [state |-> "item", item |-> r.out]

\* POST /chat with stream_enabled: register the Event and the creation
\* time, and return the StreamingResponse that reads stream_and_cleanup
ChatStream ==
    /\ turn.pc = "none"
    /\ active_streams' = Put(active_streams, TurnId, TurnId)
    /\ stream_timestamps' = Put(stream_timestamps, TurnId, now)
    /\ turn' = [turn EXCEPT !.pc = "streaming", !.kind = "sse"]
    /\ engine' = [engine EXCEPT !.pc = "loop"]
    /\ chan' = [state |-> "demand", item |-> NoItem]
    /\ UNCHANGED <<cancel_set, last_cancel, emitted, delivered, spawned>>
    /\ UNCHANGED <<persVars, concVars, routeVars, cacheVars, others>>

\* a caller reads the engine itself, without a cancel_flag
DirectRun ==
    /\ turn.pc = "none"
    /\ turn' = [turn EXCEPT !.pc = "streaming", !.kind = "direct"]
    /\ engine' = [engine EXCEPT !.pc = "loop"]
    /\ chan' = [state |-> "demand", item |-> NoItem]
    /\ UNCHANGED <<active_streams, stream_timestamps, cancel_set, last_cancel,
                   emitted, delivered, spawned>>
    /\ UNCHANGED <<persVars, concVars, routeVars, cacheVars, others>>

\* the engine takes the next low-level event from graph.astream_events
EngineEvent(event) ==
    /\ engine.pc = "loop" /\ chan.state = "demand"
    /\ engine.consumed < MaxEvents
    /\ LET r == EngineOnEvent(FlagSet, event)
       IN /\ engine' = [engine EXCEPT !.pc = r.pc, !.consumed = @ + 1]
          /\ EngineYields(r)
    /\ UNCHANGED <<active_streams, stream_timestamps, cancel_set, last_cancel,
                   turn, delivered, spawned>>
    /\ UNCHANGED <<persVars, concVars, routeVars, cacheVars, others>>

\* the same step, followed: the name of an on_tool_start event that reaches
\* line 245 (the turn is not cancelled) is noted, as the event carries it
EngineToolEvent(event) ==
    /\ engine.pc = "loop" /\ chan.state = "demand"
    /\ engine.consumed < MaxEvents
    /\ LET r == EngineOnEvent(FlagSet, event)
       IN /\ engine' = [pc |-> r.pc, consumed |-> engine.consumed + 1,
                        tools |-> IF ~FlagSet /\ event.event = "on_tool_start"
                                  THEN Append(engine.tools, event.name)
                                  ELSE engine.tools]
          /\ EngineYields(r)
    /\ UNCHANGED <<active_streams, stream_timestamps, cancel_set, last_cancel,
                   turn, delivered, spawned>>
    /\ UNCHANGED <<persVars, concVars, routeVars, cacheVars, others>>

\* graph.astream_events is exhausted: the loop ends and line 255 yields done
EngineEnd ==
    /\ engine.pc = "loop" /\ chan.state = "demand"
    /\ engine' = [engine EXCEPT !.pc = "atDone"]
    /\ EngineYields([out |-> Item("done", "")])
    /\ UNCHANGED <<active_streams, stream_timestamps, cancel_set, last_cancel,
                   turn, delivered, spawned>>
    /\ UNCHANGED <<persVars, concVars, routeVars, cacheVars, others>>

\* graph.astream_events raises: line 253 yields error
EngineRaise ==
    /\ engine.pc = "loop" /\ chan.state = "demand"
    /\ engine' = [engine EXCEPT !.pc = "atError"]
    /\ EngineYields([out |-> Item("error", "e")])
    /\ UNCHANGED <<active_streams, stream_timestamps, cancel_set, last_cancel,
                   turn, delivered, spawned>>
    /\ UNCHANGED <<persVars, concVars, routeVars, cacheVars, others>>

\* the engine is resumed after a yield outside its loop: after the error of
\* line 253 it goes on to line 255 and yields done; after the cancelled of
\* line 230 it returns, after the done of line 255 it ends
EngineResume ==
    /\ chan.state = "demand"
    /\ engine.pc \in {"atError", "atCancelled", "atDone"}
    /\ IF engine.pc = "atError"
       THEN /\ engine' = [engine EXCEPT !.pc = "atDone"]
            /\ EngineYields([out |-> Item("done", "")])
       ELSE /\ engine' = [engine EXCEPT !.pc = "finished"]
            /\ chan' = [state |-> "stop", item |-> NoItem]
            /\ UNCHANGED emitted
    /\ UNCHANGED <<active_streams, stream_timestamps, cancel_set, last_cancel,
                   turn, delivered, spawned>>
    /\ UNCHANGED <<persVars, concVars, routeVars, cacheVars, others>>

\* the tracking of stream_and_cleanup with "=" in the place of "+=" on
\* full_bot_response
RECURSIVE TrackKeepsLastToken(_, _)
TrackKeepsLastToken(t, blocks) ==
    IF blocks = <<>> THEN t
    ELSE LET data_payload == ParseBlock(Head(blocks))
             t1 == IF data_payload.type = "token"
                   THEN [t EXCEPT !.full_bot_response =
                            <<data_payload.content>>]
                   ELSE IF data_payload.type = "intent"
                           /\ data_payload.content # ""
                           /\ data_payload.content # "general"
                   THEN [t EXCEPT !.detected_intent = data_payload.content]
                   ELSE t
         IN TrackKeepsLastToken(t1, Tail(blocks))

\* lines 219-231 of stream_and_cleanup: the turn's text and intent after the
\* blocks of one chunk
RECURSIVE Track(_, _)
Track(t, blocks) ==
    IF blocks = <<>> THEN t
    ELSE LET data_payload == ParseBlock(Head(blocks))
             t1 == IF data_payload.type = "token"
                   THEN [t EXCEPT !.full_bot_response =
                            Append(@, data_payload.content)]
                   ELSE IF data_payload.type = "intent"
                           /\ data_payload.content # ""
                           /\ data_payload.content # "general"
                   THEN [t EXCEPT !.detected_intent = data_payload.content]
                   ELSE t
         IN Track(t1, Tail(blocks))

\* sse_streamer takes a chunk from the engine and stream_and_cleanup sends
\* its block to the client; json.dumps can only fail on content that comes
\* from the model or a tool
SseDeliver(dumps_ok) ==
    /\ turn.kind = "sse" /\ turn.pc = "streaming" /\ chan.state = "item"
    /\ dumps_ok \/ chan.item.type \in {"token", "intent"}
    /\ LET r == sse_streamer(chan.item, dumps_ok)
       IN /\ delivered' = delivered \o r.blocks
          /\ turn' = [Track(turn, r.blocks) EXCEPT
                        !.pc = IF r.stop THEN "finally" ELSE "streaming"]
          /\ chan' = [state |-> IF r.stop THEN "idle" ELSE "demand",
                      item |-> NoItem]
    /\ UNCHANGED <<active_streams, stream_timestamps, cancel_set, last_cancel,
                   engine, emitted, spawned>>
    /\ UNCHANGED <<persVars, concVars, routeVars, cacheVars, others>>

\* the client goes away: the response is cancelled where it stands
Disconnect ==
    /\ turn.kind = "sse" /\ turn.pc = "streaming"
    /\ turn' = [turn EXCEPT !.pc = "finally", !.disconnected = TRUE]
    /\ chan' = [state |-> "idle", item |-> NoItem]
    /\ UNCHANGED <<active_streams, stream_timestamps, cancel_set, last_cancel,
                   engine, emitted, delivered, spawned>>
    /\ UNCHANGED <<persVars, concVars, routeVars, cacheVars, others>>

\* the finally block of stream_and_cleanup, entered when sse_streamer has
\* left its loop, when the engine has ended, or on disconnect
StreamCleanup ==
    /\ turn.kind = "sse"
    /\ \/ turn.pc = "finally"
       \/ turn.pc = "streaming" /\ chan.state = "stop"
    /\ active_streams' = IF TurnId \in DOMAIN active_streams
                         THEN Remove(active_streams, TurnId)
                         ELSE active_streams
    /\ spawned' = <<[task |-> "store", session_id |-> TurnId,
                     bot_response |-> turn.full_bot_response,
                     intent |-> turn.detected_intent],
                    [task |-> "flush", session_id |-> TurnId,
                     bot_response |-> <<>>, intent |-> ""]>>
    /\ turn' = [turn EXCEPT !.pc = "ended"]
    /\ chan' = [state |-> "idle", item |-> NoItem]
    /\ UNCHANGED <<stream_timestamps, cancel_set, last_cancel, engine,
                   emitted, delivered>>
    /\ UNCHANGED <<persVars, concVars, routeVars, cacheVars, others>>

\* the direct caller's "async for": take the item and ask for the next one,
\* until the engine ends
DirectTake ==
    /\ turn.kind = "direct" /\ turn.pc = "streaming"
    /\ chan.state \in {"item", "stop"}
    /\ IF chan.state = "item"
       THEN /\ chan' = [state |-> "demand", item |-> NoItem]
            /\ UNCHANGED turn
       ELSE /\ chan' = [state |-> "idle", item |-> NoItem]
            /\ turn' = [turn EXCEPT !.pc = "ended"]
    /\ UNCHANGED <<active_streams, stream_timestamps, cancel_set, last_cancel,
                   engine, emitted, delivered, spawned>>
    /\ UNCHANGED <<persVars, concVars, routeVars, cacheVars, others>>

\* the answer to a cancel request, with what was going on when it came:
\* late tells whether this or an earlier request has set the Event of the
\* turn when its engine had already yielded its terminal event, during are
\* the persistence calls that were in progress
Answer(session_id, status) ==
    [id |-> session_id, status |-> status,
     late |-> \/ last_cancel.late
              \/ /\ session_id = TurnId /\ status = "cancelled"
                 /\ \E i \in 1..Len(emitted) : emitted[i].type \in Terminal,
     during |-> {threads[t].caller : t \in {u \in Threads : ~At(u, "idle")}}]

\* a cancel request that also aborts the persistence calls in progress
CancelAbortsCalls(session_id) ==
    /\ IF session_id \in DOMAIN active_streams
       THEN /\ cancel_set' = cancel_set \cup {active_streams[session_id]}
            /\ last_cancel' = Answer(session_id, "cancelled")
            /\ threads' = [t \in Threads |-> Idle]
       ELSE /\ UNCHANGED <<cancel_set, threads>>
            /\ last_cancel' = Answer(session_id, "not_found")
    /\ UNCHANGED <<active_streams, stream_timestamps, turn, engine, chan,
                   emitted, delivered, spawned, others>>
    /\ UNCHANGED <<persVars, started, acked, discarded, routeVars, cacheVars>>

\* a cancel request that sets every Event of the registry
CancelSetsAll(session_id) ==
    /\ IF session_id \in DOMAIN active_streams
       THEN /\ cancel_set' = cancel_set \cup
                    {active_streams[k] : k \in DOMAIN active_streams}
            /\ last_cancel' = Answer(session_id, "cancelled")
       ELSE /\ UNCHANGED cancel_set
            /\ last_cancel' = Answer(session_id, "not_found")
    /\ UNCHANGED <<active_streams, stream_timestamps, turn, engine, chan,
                   emitted, delivered, spawned>>
    /\ UNCHANGED <<persVars, concVars, routeVars, cacheVars, others>>

\* a cancel request that clears an Event that is already set
CancelToggles(session_id) ==
    /\ IF session_id \in DOMAIN active_streams
       THEN /\ cancel_set' =
                  IF active_streams[session_id] \in cancel_set
                  THEN cancel_set \ {active_streams[session_id]}
                  ELSE cancel_set \cup {active_streams[session_id]}
            /\ last_cancel' = Answer(session_id, "cancelled")
       ELSE /\ UNCHANGED cancel_set
            /\ last_cancel' = Answer(session_id, "not_found")
    /\ UNCHANGED <<active_streams, stream_timestamps, turn, engine, chan,
                   emitted, delivered, spawned>>
    /\ UNCHANGED <<persVars, concVars, routeVars, cacheVars, others>>

\* POST /chat/cancel
cancel_stream(session_id) ==
    /\ IF session_id \in DOMAIN active_streams
       THEN /\ cancel_set' = cancel_set \cup {active_streams[session_id]}
            /\ last_cancel' = Answer(session_id, "cancelled")
       ELSE /\ UNCHANGED cancel_set
            /\ last_cancel' = Answer(session_id, "not_found")
    /\ UNCHANGED <<active_streams, stream_timestamps, turn, engine, chan,
                   emitted, delivered, spawned>>
    /\ UNCHANGED <<persVars, concVars, routeVars, cacheVars, others>>

\* POST /chat with stream_enabled by another client: lines 197-199 for its
\* own fresh session_id
OtherChatStream(id) ==
    /\ others[id] = "none"
    /\ others' = [others EXCEPT ![id] = "open"]
    /\ active_streams' = Put(active_streams, id, id)
    /\ stream_timestamps' = Put(stream_timestamps, id, now)
    /\ UNCHANGED <<cancel_set, last_cancel, turn, engine, chan, emitted,
                   delivered, spawned>>
    /\ UNCHANGED <<persVars, concVars, routeVars, cacheVars>>

\* the finally block of the other client's stream_and_cleanup, line 234
OtherStreamCleanup(id) ==
    /\ others[id] = "open"
    /\ others' = [others EXCEPT ![id] = "ended"]
    /\ active_streams' = IF id \in DOMAIN active_streams
                         THEN Remove(active_streams, id)
                         ELSE active_streams
    /\ UNCHANGED <<stream_timestamps, cancel_set, last_cancel, turn, engine,
                   chan, emitted, delivered, spawned>>
    /\ UNCHANGED <<persVars, concVars, routeVars, cacheVars>>

\* lines 315-319 of cleanup_stale_streams: the ids older than the TTL
StaleStreams(timestamps, current_time) ==
    {session_id \in DOMAIN timestamps :
        current_time - timestamps[session_id] > STREAM_TTL}

\* d.pop(k, None) for every k of a set of keys
PopAll(d, keys) == [x \in (DOMAIN d) \ keys |-> d[x]]

\* a sweep that releases only the streams whose Event was set
SweepOnlySignalled(reg, current_time) ==
    LET stale_sessions ==
            {k \in StaleStreams(reg.stream_timestamps, current_time) :
                k \in reg.cancel_set}
    IN [reg EXCEPT
          !.active_streams = PopAll(@, stale_sessions),
          !.stream_timestamps = PopAll(@, stale_sessions)]

\* one round of cleanup_stale_streams, lines 314-324, on the registry
\* reg = [active_streams, stream_timestamps, cancel_set]
cleanup_stale_streams(reg, current_time) ==
    LET stale_sessions == StaleStreams(reg.stream_timestamps, current_time)
    IN [reg EXCEPT
          !.active_streams = PopAll(@, stale_sessions),
          !.stream_timestamps = PopAll(@, stale_sessions)]

\* the registry as the sweep takes it
Registry ==
    [active_streams |-> active_streams,
     stream_timestamps |-> stream_timestamps, cancel_set |-> cancel_set]

\* the sweep task wakes up from its sleep and does one round; nothing in
\* the round awaits, so no other task of the event loop runs within it
CleanupStaleStreams ==
    /\ LET r == cleanup_stale_streams(Registry, now)
       IN /\ active_streams' = r.active_streams
          /\ stream_timestamps' = r.stream_timestamps
    /\ UNCHANGED <<cancel_set, last_cancel, turn, engine, chan, emitted,
                   delivered, spawned, others>>
    /\ UNCHANGED <<persVars, concVars, routeVars, cacheVars>>

\* a tick passes: every creation time is one tick older (time is kept
\* relative, as for the buffer's sweep)
StreamTick ==
    /\ \E k \in DOMAIN stream_timestamps :
          now - stream_timestamps[k] <= STREAM_TTL
    /\ stream_timestamps' =
          [k \in DOMAIN stream_timestamps |->
              IF now - stream_timestamps[k] <= STREAM_TTL
              THEN stream_timestamps[k] - 1 ELSE stream_timestamps[k]]
    /\ UNCHANGED <<active_streams, cancel_set, last_cancel, turn, engine,
                   chan, emitted, delivered, spawned, others>>
    /\ UNCHANGED <<persVars, concVars, routeVars, cacheVars>>

NextStream ==
    \/ ChatStream
    \/ DirectRun
    \/ \E event \in LowLevelEvents : EngineEvent(event)
    \/ EngineEnd
    \/ EngineRaise
    \/ EngineResume
    \/ \E dumps_ok \in BOOLEAN : SseDeliver(dumps_ok)
    \/ Disconnect
    \/ StreamCleanup
    \/ DirectTake
    \/ \E session_id \in StreamIds : cancel_stream(session_id)

SpecStream == Init /\ [][NextStream]_vars

\* one streaming turn with the tool starts of its graph followed
NextEngine ==
    \/ ChatStream
    \/ DirectRun
    \/ \E event \in LowLevelEvents : EngineToolEvent(event)
    \/ EngineEnd
    \/ EngineRaise
    \/ EngineResume
    \/ \E dumps_ok \in BOOLEAN : SseDeliver(dumps_ok)
    \/ Disconnect
    \/ StreamCleanup
    \/ DirectTake
    \/ cancel_stream(TurnId)

SpecEngine == Init /\ [][NextEngine]_vars

\* a streaming turn of /chat from its registration to its cleanup
TurnStep ==
    \/ ChatStream
    \/ \E event \in LowLevelEvents : EngineEvent(event)
    \/ EngineEnd
    \/ EngineRaise
    \/ \E dumps_ok \in BOOLEAN : SseDeliver(dumps_ok)
    \/ Disconnect
    \/ StreamCleanup

\* app.py, send_message_streaming, lines 172-174: the chat client draws an
\* id of its own (uuid4) for the turn it is about to stream and keeps it in
\* st.session_state.current_session_id (turn.current_session_id, 0 for
\* None).  The payload of lines 177-184 carries a thread_id and no session
\* id, and no block of the stream carries the server's one.
send_message_streaming(current_session_id) ==
    /\ turn.pc = "none" /\ turn.current_session_id = 0
    /\ turn' = [turn EXCEPT !.current_session_id = current_session_id]
    /\ UNCHANGED <<active_streams, stream_timestamps, cancel_set, last_cancel,
                   engine, chan, emitted, delivered, spawned, others>>
    /\ UNCHANGED <<persVars, concVars, routeVars, cacheVars>>

\* app.py, lines 186-190: the client's POST /chat reaches the server
ClientChatStream ==
    /\ turn.current_session_id # 0
    /\ ChatStream

\* app.py, cancel_stream, lines 111-120 (the Stop button, shown while
\* current_session_id is set): POST /chat/cancel with the client's id, which
\* the server handles as in main.py lines 250-257, then the id is forgotten
app_cancel_stream ==
    /\ turn.current_session_id # 0
    /\ LET session_id == turn.current_session_id
       IN IF session_id \in DOMAIN active_streams
          THEN /\ cancel_set' = cancel_set \cup {active_streams[session_id]}
               /\ last_cancel' = Answer(session_id, "cancelled")
          ELSE /\ UNCHANGED cancel_set
               /\ last_cancel' = Answer(session_id, "not_found")
    /\ turn' = [turn EXCEPT !.current_session_id = 0]
    /\ UNCHANGED <<active_streams, stream_timestamps, engine, chan,
                   emitted, delivered, spawned, others>>
    /\ UNCHANGED <<persVars, concVars, routeVars, cacheVars>>

\* app.py, line 232: the client has read its stream to the end
ClientStreamRead ==
    /\ turn.pc = "ended" /\ turn.current_session_id # 0
    /\ turn' = [turn EXCEPT !.current_session_id = 0]
    /\ UNCHANGED <<active_streams, stream_timestamps, cancel_set, last_cancel,
                   engine, chan, emitted, delivered, spawned, others>>
    /\ UNCHANGED <<persVars, concVars, routeVars, cacheVars>>

\* a streaming turn of the chat client, from Send to the end of the stream,
\* with its Stop button
NextClient ==
    \/ \E id \in StreamIds : send_message_streaming(id)
    \/ ClientChatStream
    \/ \E event \in LowLevelEvents : EngineEvent(event)
    \/ EngineEnd
    \/ EngineRaise
    \/ \E dumps_ok \in BOOLEAN : SseDeliver(dumps_ok)
    \/ StreamCleanup
    \/ app_cancel_stream
    \/ ClientStreamRead

SpecClient == Init /\ [][NextClient]_vars

\* the turn among the turns of other clients, with the sweep task and time
NextRegistry ==
    \/ TurnStep
    \/ \E session_id \in StreamIds : cancel_stream(session_id)
    \/ \E id \in StreamIds \ {TurnId} :
          OtherChatStream(id) \/ OtherStreamCleanup(id)
    \/ CleanupStaleStreams
    \/ StreamTick

SpecRegistry == Init /\ [][NextRegistry]_vars

\* asyncio runs the next of the tasks created by the stream's cleanup, in
\* the order of their creation: async_store_conversation and
\* async_flush_session hand their call to a worker thread (asyncio.to_thread)
\* and the calls then run side by side.  The turn's text is taken by the
\* number of its tokens, all tokens being alike.
RunTask ==
    /\ started < Len(spawned)
    /\ LET task == spawned[started + 1]
           t == started + 1
       IN /\ t \in Workers /\ At(t, "idle")
          /\ threads' = [threads EXCEPT ![t] =
                [Idle EXCEPT
                   !.pc = IF task.task = "store" THEN "s124" ELSE "f191",
                   !.caller = task.task,
                   !.ret = "pending",
                   !.sid = task.session_id,
                   !.text = IF task.task = "store"
                            THEN Len(task.bot_response) ELSE 0]]
    /\ started' = started + 1
    /\ UNCHANGED <<persVars, acked, discarded>>
    /\ UNCHANGED <<streamVars, routeVars, cacheVars>>

\* a streaming turn from the request to the end of the persistence calls
\* its cleanup starts, with cancel requests and another client's stream
NextTurn ==
    \/ TurnStep
    \/ \E session_id \in StreamIds : cancel_stream(session_id)
    \/ \E id \in StreamIds \ {TurnId} : OtherChatStream(id)
    \/ RunTask
    \/ \E t \in Workers : Step(t)

SpecTurn == Init /\ [][NextTurn]_vars

\* the registry alone: streams are registered, cancelled, abandoned by
\* their clients and cleaned up, whatever their engines do meanwhile
NextSweep ==
    \/ ChatStream
    \/ Disconnect
    \/ StreamCleanup
    \/ \E session_id \in StreamIds : cancel_stream(session_id)
    \/ \E id \in StreamIds \ {TurnId} :
          OtherChatStream(id) \/ OtherStreamCleanup(id)
    \/ CleanupStaleStreams
    \/ StreamTick

SpecSweep == Init /\ [][NextSweep]_vars

\* the sweep task never stops and time does not stand still
SpecSweepFair ==
    /\ SpecSweep
    /\ WF_vars(CleanupStaleStreams)
    /\ WF_vars(StreamTick)

(***************************************************************************)
(* app/langgraph_graph.py, app/agents: the agent graph in one run          *)
(* (graph.invoke or graph.astream_events).  The graph runs one node at a   *)
(* time: the supervisor, whose decision state["next"] the conditional edge *)
(* turns into the next node, and the responders BookingAgent and           *)
(* SupportAgent, each a sub-graph that loops between its LLM node and its  *)
(* tool node.  router is                                                   *)
(*   [node |-> the node to run next ("START", "supervisor", a responder,   *)
(*             "END"), or "raised" when a node raised and the run ended,   *)
(*    next |-> state["next"],                                              *)
(*    inner |-> where a responder's sub-graph stands: "start", "llm"       *)
(*              (back from the tools), "tools", or "none",                 *)
(*    tool_calls |-> whether state["messages"][-1] has tool_calls]         *)
(* path keeps the last PathWindow nodes run: the supervisor with its       *)
(* decision and how it got it, a responder when its sub-graph is entered.  *)
(***************************************************************************)
Responders == {"BookingAgent", "SupportAgent"}

\* the values of RouteResponse.next
Decisions == Responders \cup {"FINISH"}

\* what the decision service can answer to the structured request (a
\* decision, or "raise": unavailable or malformed), and to the free-text
\* request: it raises, or returns a text that mentions some of the names
StructuredAnswers == Decisions \cup {"raise"}

FallbackAnswers == [raises : BOOLEAN, mentions : SUBSET Responders]

\* supervisor_node: the decision it returns, how it got it, and whether it
\* raised instead
supervisor_node(structured, fallback) ==
    IF structured # "raise"
    THEN [next |-> structured, via |-> "structured", raised |-> FALSE]
    ELSE IF fallback.raises
    THEN [next |-> "", via |-> "fallback", raised |-> TRUE]
    ELSE IF "BookingAgent" \in fallback.mentions
    THEN [next |-> "BookingAgent", via |-> "fallback", raised |-> FALSE]
    ELSE IF "SupportAgent" \in fallback.mentions
    THEN [next |-> "SupportAgent", via |-> "fallback", raised |-> FALSE]
    ELSE [next |-> "FINISH", via |-> "fallback", raised |-> FALSE]

\* a conditional edge that sends every responder decision to BookingAgent
RouteAlwaysBooking(next) ==
    IF next = "FINISH" THEN "END" ELSE "BookingAgent"

\* the conditional edge from the supervisor: lambda x: x["next"] through the
\* map of lines 119-123
RouteEdge(next) ==
    IF next = "FINISH" THEN "END" ELSE next

\* responders that end the run themselves
ResponderEndsTurn(responder) == "END"

\* the edges from the responders back to the supervisor, lines 127-128
ResponderEdge(responder) == "supervisor"

\* should_continue of a responder's sub-graph
should_continue(tool_calls) == IF tool_calls THEN "tools" ELSE "__end__"

\* path with one more node, the oldest dropped beyond the window
Push(p, e) ==
    IF Len(p) < PathWindow THEN Append(p, e) ELSE Append(Tail(p), e)

\* the run starts: the edge from START, line 113
GraphStart ==
    /\ router.node = "START"
    /\ router' = [router EXCEPT !.node = "supervisor"]
    /\ UNCHANGED <<path, chat, memory, tool_call>>
    /\ UNCHANGED <<persVars, concVars, streamVars, cacheVars>>

\* the supervisor node runs and the conditional edge picks the next node
RunSupervisor(structured, fallback) ==
    /\ router.node = "supervisor"
    /\ LET r == supervisor_node(structured, fallback)
           to == RouteEdge(r.next)
       IN /\ router' =
                IF r.raised THEN [router EXCEPT !.node = "raised"]
                ELSE [router EXCEPT
                        !.node = to, !.next = r.next,
                        !.inner = IF to \in Responders THEN "start"
                                  ELSE "none"]
          /\ path' = Push(path, [node |-> "supervisor", decision |-> r.next,
                                 via |-> r.via, raised |-> r.raised])
    /\ UNCHANGED <<persVars, concVars, streamVars, cacheVars, chat, memory,
                   tool_call>>

\* the LLM node of the responder's sub-graph (booking_node, support_node):
\* the model raises, or answers with plain content or with tool calls;
\* should_continue then goes to the tools, or ends the sub-graph, and the
\* parent's edge leads on from the responder
AgentNode(result) ==
    /\ router.node \in Responders
    /\ router.inner \in {"start", "llm"}
    /\ path' = IF router.inner = "start"
               THEN Push(path, [node |-> router.node, decision |-> "",
                                via |-> "", raised |-> result = "raise"])
               ELSE path
    /\ router' =
          IF result = "raise"
          THEN [router EXCEPT !.node = "raised", !.inner = "none"]
          ELSE IF should_continue(result = "tool_calls") = "tools"
          THEN [router EXCEPT !.inner = "tools", !.tool_calls = TRUE]
          ELSE [router EXCEPT !.node = ResponderEdge(router.node),
                              !.inner = "none", !.tool_calls = FALSE]
    /\ UNCHANGED <<persVars, concVars, streamVars, cacheVars, chat, memory,
                   tool_call>>

\* the tool node of the sub-graph: the tool's result is appended as a
\* message and the edge leads back to the LLM node
ToolsNode ==
    /\ router.node \in Responders
    /\ router.inner = "tools"
    /\ router' = [router EXCEPT !.inner = "llm", !.tool_calls = FALSE]
    /\ UNCHANGED <<path, chat, memory, tool_call>>
    /\ UNCHANGED <<persVars, concVars, streamVars, cacheVars>>

NextRouter ==
    \/ GraphStart
    \/ \E structured \in StructuredAnswers, fallback \in FallbackAnswers :
          RunSupervisor(structured, fallback)
    \/ \E result \in {"content", "tool_calls", "raise"} : AgentNode(result)
    \/ ToolsNode

SpecRouter == Init /\ [][NextRouter]_vars

\* the graph goes on running nodes as long as there is one to run
SpecRouterFair == SpecRouter /\ WF_vars(NextRouter)

(***************************************************************************)
(* app/main.py, app/langgraph_graph.py: the non-streaming path of /chat.   *)
(* The turn invokes the graph (graph.invoke, the run of the nodes above),  *)
(* records the turn with store_conversation under a session id made for    *)
(* this request, and returns a ChatResponse.  One turn at a time.          *)
(***************************************************************************)
\* the text returned when the graph's run has failed
ErrorText == "Error processing message."

\* process_user_message_with_context without its try block
ProcessWithoutTry(run_raised) ==
    IF run_raised
    THEN [bot_response |-> "", intent |-> "", raised |-> TRUE]
    ELSE [bot_response |-> "content", intent |-> "general", raised |-> FALSE]

\* process_user_message_with_context: the dict it returns, given whether
\* graph.invoke raised; the function itself never raises
process_user_message_with_context(run_raised) ==
    IF run_raised
    THEN [bot_response |-> ErrorText, intent |-> "error", raised |-> FALSE]
    ELSE [bot_response |-> "content", intent |-> "general", raised |-> FALSE]

\* the combined text of the turn, as the persistence layer is given it
ChatText(bot_response) == IF bot_response = ErrorText THEN 2 ELSE 1

\* POST /chat with stream_enabled false: the request is taken and
\* graph.invoke starts on a fresh initial state
ChatRequest ==
    /\ chat.pc \in {"idle", "answered"}
    /\ chat.n < NSessions
    /\ chat' = [chat EXCEPT !.pc = "invoking", !.n = @ + 1,
                            !.response = NoChat.response]
    /\ router' = NoRun
    /\ path' = <<>>
    /\ UNCHANGED <<persVars, concVars, streamVars, cacheVars, memory,
                   tool_call>>

\* a node of the graph runs inside graph.invoke
ChatInvokeStep ==
    /\ chat.pc = "invoking"
    /\ NextRouter

\* a request keyed by its conversation instead of by itself: every request
\* gets the first session id
SessionIdOfThread == CHOOSE s \in Sessions : \A o \in Sessions : s <= o

\* main.py, line 159: session_id = str(uuid.uuid4()), an id no earlier
\* request had; the requests are numbered and the number is the id
session_id == chat.n

\* graph.invoke is over: lines 172-191 of main.py from the result on.  The
\* stream id chat.n is the uuid of this request.  store_conversation answers
\* True or False and the answer is dropped; an exception out of the try
\* block becomes an HTTPException.
ChatRespond ==
    /\ chat.pc = "invoking"
    /\ router.node \in {"END", "raised"}
    /\ LET result == process_user_message_with_context(router.node = "raised")
       IN IF result.raised
          THEN /\ chat' = [chat EXCEPT
                             !.pc = "answered",
                             !.response = [kind |-> "http_error",
                                           bot_response |-> "",
                                           intent |-> ""]]
               /\ UNCHANGED <<persVars, router, path>>
          ELSE /\ \E r \in {store_conversation(PState, session_id,
                                               ChatText(result.bot_response),
                                               now, env) : env \in Envs} :
                      /\ collection_loaded' = r.collection_loaded
                      /\ write_buffer' = r.write_buffer
                      /\ buffer_timestamps' = r.buffer_timestamps
                      /\ embedding_cache' = r.embedding_cache
                      /\ db' = r.db
                      /\ last' = [op |-> "store", sid |-> session_id,
                                  ret |-> r.ret, calls |-> r.calls,
                                  dropped |-> r.dropped, value |-> r.value,
                                  encodes |-> r.encodes]
               /\ chat' = [chat EXCEPT
                             !.pc = "answered",
                             !.response =
                                 [kind |-> "response",
                                  bot_response |-> result.bot_response,
                                  intent |-> result.intent]]
               /\ UNCHANGED <<client, now, router, path>>
    /\ UNCHANGED <<concVars, streamVars, cacheVars, memory, tool_call>>

NextChat ==
    \/ ChatRequest
    \/ ChatInvokeStep
    \/ ChatRespond
    \/ CleanupStaleBuffers
    \/ Tick

SpecChat == Init /\ [][NextChat]_vars

(***************************************************************************)
(* app/tools/booking_tool.py: booking_agent_tool, the tool of the          *)
(* BookingAgent's sub-graph.  The calendar operations answer as env says:  *)
(*   env.cancel     cancel_meeting: "found", "none" (None) or "raise"      *)
(*   env.available  is_slot_available: "yes", "no" or "raise"              *)
(*   env.slots      get_available_slots: "list" or "raise"                 *)
(*   env.book       book_meeting: "ok" (the meeting is created),           *)
(*                  "partial" (created, but the dict lacks a key the tool  *)
(*                  reads) or "raise"                                      *)
(* manager is FALSE when calendar_manager is None.  A result is            *)
(* [kind |-> "text", text |-> <<cancel_msg, what, date_str, time_str>>],   *)
(* or [kind |-> "raised"] when an exception leaves the function.           *)
(***************************************************************************)
Dates == {"", "2025-11-29", "29 November 2025"}

\* "10:00 AM" is read by strptime(time_str, "%I:%M %p"); "10am" is not, nor
\* is a slot as get_available_slots writes it, "10:00 AM - 11:00 AM"
Times == {"", "10:00 AM", "10am", "10:00 AM - 11:00 AM"}

ToolEnvs == [cancel : {"found", "none", "raise"},
             available : {"yes", "no", "raise"},
             slots : {"list", "raise"},
             book : {"ok", "partial", "raise"}]

\* time_slot.split(" - ")[0].strip(), what is_slot_available and
\* book_meeting read of a time
SlotStart(time_slot) ==
    IF time_slot = "10:00 AM - 11:00 AM" THEN "10:00 AM" ELSE time_slot

\* _is_slot_available_sync answers False when it cannot read the start of
\* the slot (its own except clause): it answers True for readable ones only
Answers(time, env) ==
    env.available = "yes" => SlotStart(time) = "10:00 AM"

\* a calendar operation the tool awaited, with its outcome
Op(name, out) == [op |-> name, out |-> out]

ToolText(cancel_msg, what, date_str, time_str, ops) ==
    [kind |-> "text", text |-> <<cancel_msg, what, date_str, time_str>>,
     failed |-> "none", ops |-> ops]

ToolRaised(operation, ops) ==
    [kind |-> "raised", text |-> <<>>, failed |-> operation, ops |-> ops]

\* lines 337-344: "29 November 2025" becomes "2025-11-29"; anything
\* strptime cannot read stays as it is
NormaliseDate(date) ==
    IF date = "29 November 2025" THEN "2025-11-29" ELSE date

\* a try block that asks for the slot first and cancels the previous meeting
\* only when the slot is available
BookingChecksFirst(date_str, time_str, reschedule, env) ==
    LET cancel_msg == IF ~reschedule THEN ""
                      ELSE IF env.cancel = "found" THEN "cancelled"
                      ELSE "not found"
        checked == <<Op("is_slot_available", env.available)>>
        listed == checked \o <<Op("get_available_slots", env.slots)>>
        cancelled == IF reschedule
                     THEN checked \o <<Op("cancel_meeting", env.cancel)>>
                     ELSE checked
        booked == cancelled \o <<Op("book_meeting", env.book)>>
    IN IF env.available = "raise"
       THEN ToolRaised("availability", checked)
       ELSE IF env.available = "no"
       THEN IF env.slots = "raise" THEN ToolRaised("slots", listed)
            ELSE ToolText("", "not available", date_str, time_str, listed)
       ELSE IF time_str # "10:00 AM" THEN ToolRaised("time", checked)
       ELSE IF reschedule /\ env.cancel = "raise"
       THEN ToolRaised("cancel", cancelled)
       ELSE IF env.book = "raise" THEN ToolRaised("booking", booked)
       ELSE IF env.book = "partial" THEN ToolRaised("booking dict", booked)
       ELSE ToolText(cancel_msg, "booked", date_str, time_str, booked)

\* lines 356-398, the body of the try block: its return value, or the
\* operation whose exception leaves it, and the calendar operations awaited
BookingBody(date_str, time_str, reschedule, env) ==
    LET cancel_msg == IF ~reschedule THEN ""
                      ELSE IF env.cancel = "found" THEN "cancelled"
                      ELSE "not found"
        cancelled == IF reschedule THEN <<Op("cancel_meeting", env.cancel)>>
                     ELSE <<>>
        checked == cancelled \o <<Op("is_slot_available", env.available)>>
        listed == checked \o <<Op("get_available_slots", env.slots)>>
        booked == checked \o <<Op("book_meeting", env.book)>>
    IN IF reschedule /\ env.cancel = "raise"
       THEN ToolRaised("cancel", cancelled)
       ELSE IF env.available = "raise"
       THEN ToolRaised("availability", checked)
       ELSE IF env.available = "no"
       THEN IF env.slots = "raise" THEN ToolRaised("slots", listed)
            ELSE ToolText(cancel_msg, "not available", date_str, time_str,
                          listed)
       ELSE IF time_str # "10:00 AM" THEN ToolRaised("time", checked)
       ELSE IF env.book = "raise" THEN ToolRaised("booking", booked)
       ELSE IF env.book = "partial" THEN ToolRaised("booking dict", booked)
       ELSE ToolText(cancel_msg, "booked", date_str, time_str, booked)

\* booking_agent_tool without the except clause of lines 400-402
BookingWithoutExcept(date, time, reschedule, manager, env) ==
    LET date_str == NormaliseDate(date)
    IN IF date_str = "" \/ time = ""
       THEN ToolText("", "need both", date_str, time, <<>>)
       ELSE IF ~manager
       THEN ToolText("", "offline", date_str, time, <<>>)
       ELSE BookingBody(date_str, time, reschedule, env)

\* booking_agent_tool
booking_agent_tool(date, time, reschedule, manager, env) ==
    LET date_str == NormaliseDate(date)
    IN IF date_str = "" \/ time = ""
       THEN ToolText("", "need both", date_str, time, <<>>)
       ELSE IF ~manager
       THEN ToolText("", "offline", date_str, time, <<>>)
       ELSE LET r == BookingBody(date_str, time, reschedule, env)
            IN IF r.kind = "raised"
               THEN [ToolText("", "went wrong", "", "", r.ops) EXCEPT
                        !.failed = r.failed]
               ELSE r

\* the tool node of the BookingAgent's sub-graph runs booking_agent_tool:
\* its text becomes the tool's message and the edge leads back to the LLM
\* node; an exception out of the tool would end the run
BookingToolCall(date, time, reschedule, manager, env) ==
    /\ router.node = "BookingAgent"
    /\ router.inner = "tools"
    /\ Answers(time, env)
    /\ LET r == booking_agent_tool(date, time, reschedule, manager, env)
       IN /\ tool_call' = [result |-> [kind |-> r.kind, text |-> r.text],
                           failed |-> r.failed, ops |-> r.ops,
                           time |-> time, reschedule |-> reschedule]
          /\ router' = IF r.kind = "raised"
                       THEN [router EXCEPT !.node = "raised",
                                           !.inner = "none"]
                       ELSE [router EXCEPT !.inner = "llm",
                                           !.tool_calls = FALSE]
    /\ UNCHANGED <<path, chat, memory>>
    /\ UNCHANGED <<persVars, concVars, streamVars, cacheVars>>

\* the graph's run with the booking tool's calls followed
NextTool ==
    \/ GraphStart
    \/ \E structured \in StructuredAnswers, fallback \in FallbackAnswers :
          RunSupervisor(structured, fallback)
    \/ \E result \in {"content", "tool_calls", "raise"} : AgentNode(result)
    \/ router.node = "SupportAgent" /\ ToolsNode
    \/ \E date \in Dates, time \in Times, reschedule \in BOOLEAN,
          manager \in BOOLEAN, env \in ToolEnvs :
          BookingToolCall(date, time, reschedule, manager, env)

SpecTool == Init /\ [][NextTool]_vars

(***************************************************************************)
(* app/state.py, app/langgraph_graph.py, app/agents: the messages of the   *)
(* conversation threads.  The graph is compiled with a MemorySaver, which  *)
(* keeps the state of the last finished step of every thread_id; a turn's  *)
(* initial state is merged into what is kept for its thread_id, channel by *)
(* channel, the messages channel with its reducer operator.add.  A node's  *)
(* return value is merged the same way when its step ends.  A responder is *)
(* a sub-graph over the same AgentState: it starts from the parent's       *)
(* state, runs its own steps on its own copy, and its final state is what  *)
(* the responder node returns.  A message is <<turn, role>>.  One turn at  *)
(* a time.                                                                 *)
(***************************************************************************)
\* a reducer that keeps the update alone
ReducerOverwrites(left, right) == right

\* operator.add on lists, the reducer of AgentState.messages
OperatorAdd(left, right) == left \o right

\* what the checkpointer keeps under a thread_id
SavedFor(saved, thread_id) == saved[thread_id]

\* the run is over: its thread's state is what its last finished step left
EndRun(m) ==
    [m EXCEPT !.prev[m.thread] = m.state,
              !.thread = 0, !.node = "none", !.state = <<>>, !.sub = <<>>,
              !.input = <<>>, !.steps = 0]

\* a turn is submitted with a thread_id: messages=[HumanMessage(...)] is
\* merged into the thread's saved state and the run starts at the supervisor
ThreadTurnStart(thread_id) ==
    /\ memory.thread = 0
    /\ memory.turns < MaxTurns
    /\ LET input == <<memory.turns + 1, "human">>
           state == OperatorAdd(SavedFor(memory.saved, thread_id), <<input>>)
       IN memory' = [memory EXCEPT
                       !.thread = thread_id, !.node = "supervisor",
                       !.state = state, !.input = input,
                       !.saved[thread_id] = state,
                       !.turns = @ + 1, !.of = Append(@, thread_id)]
    /\ UNCHANGED <<router, path, chat, tool_call>>
    /\ UNCHANGED <<persVars, concVars, streamVars, cacheVars>>

\* the supervisor's step: it reads state["messages"] and returns {"next":
\* ...}, no messages; it raises, finishes the run, or names a responder,
\* whose sub-graph then starts from the parent's state
ThreadSupervisor(decision) ==
    /\ memory.thread # 0 /\ memory.node = "supervisor"
    /\ memory.steps < MaxNodeRuns
    /\ memory' =
          IF decision = "raise" \/ RouteEdge(decision) = "END"
          THEN EndRun(memory)
          ELSE [memory EXCEPT !.node = "agent", !.sub = memory.state,
                              !.steps = @ + 1]
    /\ UNCHANGED <<router, path, chat, tool_call>>
    /\ UNCHANGED <<persVars, concVars, streamVars, cacheVars>>

\* the LLM node of the responder's sub-graph returns {"messages":
\* [response]}: with tool calls the sub-graph goes on to its tools; without,
\* the sub-graph ends and the responder's step merges its final state into
\* the parent's, which is saved; when the model raises the run ends with
\* what was saved before
ThreadAgentNode(result) ==
    /\ memory.thread # 0 /\ memory.node = "agent"
    /\ memory.steps < MaxNodeRuns
    /\ LET sub == OperatorAdd(memory.sub, << <<memory.turns, "ai">> >>)
           state == OperatorAdd(memory.state, sub)
       IN memory' =
             IF result = "raise" THEN EndRun(memory)
             ELSE IF should_continue(result = "tool_calls") = "tools"
             THEN [memory EXCEPT !.node = "tools", !.sub = sub,
                                 !.steps = @ + 1]
             ELSE [memory EXCEPT !.node = "supervisor", !.sub = <<>>,
                                 !.state = state,
                                 !.saved[memory.thread] = state,
                                 !.steps = @ + 1]
    /\ UNCHANGED <<router, path, chat, tool_call>>
    /\ UNCHANGED <<persVars, concVars, streamVars, cacheVars>>

\* the tool node of the sub-graph returns the tool's message
ThreadToolsNode ==
    /\ memory.thread # 0 /\ memory.node = "tools"
    /\ memory.steps < MaxNodeRuns
    /\ memory' = [memory EXCEPT
                    !.node = "agent",
                    !.sub = OperatorAdd(@, << <<memory.turns, "tool">> >>),
                    !.steps = @ + 1]
    /\ UNCHANGED <<router, path, chat, tool_call>>
    /\ UNCHANGED <<persVars, concVars, streamVars, cacheVars>>

\* the engine stops reading the graph's events (the turn is cancelled or its
\* client has gone): the run is dropped where it stands
ThreadRunDropped ==
    /\ memory.thread # 0
    /\ memory' = EndRun(memory)
    /\ UNCHANGED <<router, path, chat, tool_call>>
    /\ UNCHANGED <<persVars, concVars, streamVars, cacheVars>>

NextMemory ==
    \/ \E thread_id \in ThreadIds : ThreadTurnStart(thread_id)
    \/ \E decision \in StructuredAnswers : ThreadSupervisor(decision)
    \/ \E result \in {"content", "tool_calls", "raise"} :
          ThreadAgentNode(result)
    \/ ThreadToolsNode
    \/ ThreadRunDropped

SpecMemory == Init /\ [][NextMemory]_vars

(***************************************************************************)
(* app/cache.py: an EmbeddingCache called on its own, with any max_size    *)
(* from 1 on, any texts and any vectors.  get and set hold the cache's     *)
(* lock for their whole body, so each call is one step.                    *)
(***************************************************************************)
CacheTexts == 1..NTexts

\* the vectors given to set (a vector is never empty)
Vectors == {<<1>>, <<2>>}

InitCache ==
    /\ embedding_cache \in {NewCache(n) : n \in 1..MaxCacheSize}
    /\ system_message_cache = NewSystemMessageCache(MaxCacheSize)
    /\ stats_cache = NewStatsCache(MaxStatsTTL, MaxStatsSize)
    /\ stats_call = NoStatsCall
    /\ InitRest

\* embedding_cache.get(text)
CacheGetCall(text) ==
    /\ cache_call.gets < MaxCacheGets
    /\ LET r == CacheGet(embedding_cache, text)
       IN /\ embedding_cache' = r.cache
          /\ cache_call' = [cache_call EXCEPT !.op = "get", !.text = text,
                                              !.value = r.value,
                                              !.gets = @ + 1]
    /\ UNCHANGED <<client, collection_loaded, write_buffer, buffer_timestamps,
                   db, now, last>>
    /\ UNCHANGED <<concVars, streamVars, routeVars, system_message_cache,
                   stats_cache, stats_call>>

\* embedding_cache.set(text, embedding)
CacheSetCall(text, embedding) ==
    /\ embedding_cache' = CacheSet(embedding_cache, text, embedding)
    /\ cache_call' = [cache_call EXCEPT
                        !.op = "set", !.text = text, !.value = embedding,
                        !.was_set = @ \cup {text},
                        !.order = Append(SelectSeq(@, LAMBDA x : x # text),
                                         text)]
    /\ UNCHANGED <<client, collection_loaded, write_buffer, buffer_timestamps,
                   db, now, last>>
    /\ UNCHANGED <<concVars, streamVars, routeVars, system_message_cache,
                   stats_cache, stats_call>>

\* embedding_cache.get_stats(): the call reads the cache and changes nothing
\* in it
CacheGetStatsCall ==
    /\ CacheStats(embedding_cache).size <= CacheStats(embedding_cache).max_size
    /\ cache_call' = [cache_call EXCEPT !.op = "get_stats", !.text = 0,
                                        !.value = None]
    /\ UNCHANGED persVars
    /\ UNCHANGED <<concVars, streamVars, routeVars, system_message_cache,
                   stats_cache, stats_call>>

NextCache ==
    \/ \E text \in CacheTexts : CacheGetCall(text)
    \/ \E text \in CacheTexts, embedding \in Vectors :
          CacheSetCall(text, embedding)
    \/ CacheGetStatsCall

SpecCache == InitCache /\ [][NextCache]_vars

(***************************************************************************)
(* app/cache.py: an EmbeddingCache of up to MaxEvictSize entries, called   *)
(* as store_conversation calls it: set stores the vector encoded from the  *)
(* text.                                                                   *)
(***************************************************************************)
EvictTexts == 1..(MaxEvictSize + 1)

InitEvict ==
    /\ embedding_cache \in {NewCache(n) : n \in 1..MaxEvictSize}
    /\ system_message_cache = NewSystemMessageCache(MaxCacheSize)
    /\ stats_cache = NewStatsCache(MaxStatsTTL, MaxStatsSize)
    /\ stats_call = NoStatsCall
    /\ InitRest
    /\ ~client

NextEvict ==
    \/ \E text \in EvictTexts : CacheGetCall(text)
    \/ \E text \in EvictTexts : CacheSetCall(text, Encode(text))

SpecEvict == InitEvict /\ [][NextEvict]_vars

(***************************************************************************)
(* app/cache.py: an EmbeddingCache and a SystemMessageCache side by side,  *)
(* each with any max_size from 1 on.  The embedding cache is called as     *)
(* store_conversation calls it: set stores the vector encoded from the     *)
(* text.  Every call holds its cache's lock for its whole body.            *)
(***************************************************************************)
\* the user names: one of them holds the separator of the key
UserNames == {<<"a">>, <<"a", ":", ":">>}

ContextSummaries == {<<>>, <<"b">>}

\* the one message text (a message is never empty)
SystemMessages == {<<"m">>}

\* the persistence layer takes no part: it is left without a client
InitCaches ==
    /\ embedding_cache \in {NewCache(n) : n \in 1..MaxCacheSize}
    /\ system_message_cache \in
          {NewSystemMessageCache(n) : n \in 1..MaxCacheSize}
    /\ stats_cache = NewStatsCache(MaxStatsTTL, MaxStatsSize)
    /\ stats_call = NoStatsCall
    /\ InitRest
    /\ ~client

\* embedding_cache.get(text)
EmbeddingGet(text) ==
    /\ embedding_cache.hits + embedding_cache.misses < MaxCacheGets
    /\ embedding_cache' = CacheGet(embedding_cache, text).cache
    /\ UNCHANGED <<client, collection_loaded, write_buffer, buffer_timestamps,
                   db, now, last>>
    /\ UNCHANGED <<concVars, streamVars, routeVars, cacheVars>>

\* embedding_cache.set(text, embedding_model.encode(text).tolist())
EmbeddingSet(text) ==
    /\ embedding_cache' = CacheSet(embedding_cache, text, Encode(text))
    /\ UNCHANGED <<client, collection_loaded, write_buffer, buffer_timestamps,
                   db, now, last>>
    /\ UNCHANGED <<concVars, streamVars, routeVars, cacheVars>>

\* system_message_cache.get(user_name, context_summary): the call returns
\* the message held for the key or None, and changes nothing
SystemMessageGetCall(user_name, context_summary) ==
    /\ SystemMessageGet(system_message_cache, user_name, context_summary)
          \in SystemMessages \cup {None}
    /\ UNCHANGED vars

\* system_message_cache.set(user_name, context_summary, message)
SystemMessageSetCall(user_name, context_summary, message) ==
    /\ system_message_cache' =
          SystemMessageSet(system_message_cache, user_name, context_summary,
                           message)
    /\ UNCHANGED <<persVars, concVars, streamVars, routeVars, cache_call,
                   stats_cache, stats_call>>

NextCaches ==
    \/ \E text \in CacheTexts : EmbeddingGet(text)
    \/ \E text \in CacheTexts : EmbeddingSet(text)
    \/ \E user_name \in UserNames, context_summary \in ContextSummaries :
          SystemMessageGetCall(user_name, context_summary)
    \/ \E user_name \in UserNames, context_summary \in ContextSummaries,
          message \in SystemMessages :
          SystemMessageSetCall(user_name, context_summary, message)

SpecCaches == InitCaches /\ [][NextCaches]_vars

(***************************************************************************)
(* app/cache.py: a UserStatsCache with any TTL and any max_size from 1 on, *)
(* called while time passes.  Every call holds the lock for its whole      *)
(* body, and the cache reads the clock once in a call.  Times are kept     *)
(* relative to the clock: when a second passes every time stamp is a       *)
(* second further in the past, and a stamp that has expired is kept at the *)
(* moment it expired, since nothing reads how long ago that was.           *)
(***************************************************************************)
\* the larger of two times
Later(a, b) == IF a >= b THEN a ELSE b

\* a second passes
StatsTick ==
    /\ stats_cache' =
          [stats_cache EXCEPT !.entries =
              [i \in 1..Len(@) |->
                  [@[i] EXCEPT !.expires = Later(@ - 1, now)]]]
    /\ stats_call' =
          [stats_call EXCEPT !.latest =
              [u \in StatsUsers |->
                  IF @[u].value # None /\ now < @[u].at - 1 + stats_cache.ttl
                  THEN [@[u] EXCEPT !.at = @ - 1]
                  ELSE [at |-> 0, value |-> None]]]
    /\ UNCHANGED <<persVars, concVars, streamVars, routeVars, cache_call,
                   system_message_cache>>

InitStats ==
    /\ embedding_cache = NewCache(CacheSize)
    /\ system_message_cache = NewSystemMessageCache(MaxCacheSize)
    /\ stats_cache \in {NewStatsCache(d, n) :
                           d \in 1..MaxStatsTTL, n \in 1..MaxStatsSize}
    /\ stats_call = NoStatsCall
    /\ InitRest
    /\ ~client

\* stats_cache.get(user_name)
StatsGetCall(user_name) ==
    /\ LET r == StatsGet(stats_cache, user_name, now)
       IN /\ stats_cache' = r.cache
          /\ stats_call' = [stats_call EXCEPT !.op = "get",
                                              !.user = user_name,
                                              !.value = r.value]
    /\ UNCHANGED <<persVars, concVars, streamVars, routeVars, cache_call,
                   system_message_cache>>

\* stats_cache.set(user_name, stats)
StatsSetCall(user_name, stats) ==
    /\ stats_cache' = StatsSet(stats_cache, user_name, stats, now)
    /\ stats_call' = [stats_call EXCEPT
                        !.op = "set", !.user = user_name, !.value = stats,
                        !.latest[user_name] = [at |-> now, value |-> stats],
                        !.ever = @ \cup {user_name}]
    /\ UNCHANGED <<persVars, concVars, streamVars, routeVars, cache_call,
                   system_message_cache>>

\* stats_cache.invalidate(user_name)
StatsInvalidateCall(user_name) ==
    /\ stats_cache' = StatsInvalidate(stats_cache, user_name, now)
    /\ stats_call' = [stats_call EXCEPT
                        !.op = "invalidate", !.user = user_name,
                        !.value = None,
                        !.latest[user_name] = [at |-> 0, value |-> None]]
    /\ UNCHANGED <<persVars, concVars, streamVars, routeVars, cache_call,
                   system_message_cache>>

NextStats ==
    \/ \E user_name \in StatsUsers : StatsGetCall(user_name)
    \/ \E user_name \in StatsUsers, stats \in StatsValues :
          StatsSetCall(user_name, stats)
    \/ \E user_name \in StatsUsers : StatsInvalidateCall(user_name)
    \/ StatsTick

SpecStats == InitStats /\ [][NextStats]_vars

(***************************************************************************)
(* What the claims read off a state or a step.                             *)
(***************************************************************************)
\* the number of rows buffered for a session key
BufLen(s) == IF s \in DOMAIN write_buffer THEN Len(write_buffer[s]) ELSE 0

\* the session has a list with rows in it
NonEmpty(s) == s \in DOMAIN write_buffer /\ write_buffer[s] # <<>>

\* the session's entries in the two maps are the same before and after
SameEntry(s) ==
    /\ (s \in DOMAIN write_buffer') = (s \in DOMAIN write_buffer)
    /\ s \in DOMAIN write_buffer => write_buffer'[s] = write_buffer[s]
    /\ (s \in DOMAIN buffer_timestamps') = (s \in DOMAIN buffer_timestamps)
    /\ s \in DOMAIN buffer_timestamps =>
          buffer_timestamps'[s] = buffer_timestamps[s]

\* the step is a flush_session call on session s (the record of the call is
\* looked at first, which settles most steps)
FlushStep(s) == last'.op = "flush" /\ last'.sid = s /\ FlushSession(s)

\* the step is a round of the sweep
SweepRound == last'.op = "cleanup" /\ CleanupStaleBuffers

\* the insert calls of a call record made for session s
CallsFor(l, s) == {c \in l.calls : c.sid = s}

\* the rows written by the successful insert calls of a call record
RECURSIVE Written(_)
Written(calls) ==
    IF calls = {} THEN EmptyBag
    ELSE LET c == CHOOSE x \in calls : TRUE
         IN (IF c.ok THEN Rows(c.data) ELSE EmptyBag) (+) Written(calls \ {c})

\* the types of the SSE blocks sent to the client, in order
DeliveredTypes ==
    [i \in 1..Len(delivered) |-> ParseBlock(delivered[i]).type]

\* the types of the events the engine has yielded, in order
EmittedTypes == [i \in 1..Len(emitted) |-> emitted[i].type]

\* the positions of the terminal events in a sequence of types
TerminalAt(types) == {i \in 1..Len(types) : types[i] \in Terminal}

(***************************************************************************)
(* C1.  In the SSE blocks that sse_streamer delivers for a streaming turn  *)
(* of /chat there is never more than one terminal block (done, cancelled,  *)
(* error) and nothing, in particular no token or intent block, comes after *)
(* it; and when the stream has run to its end (the client did not go away  *)
(* before) there is exactly one.                                           *)
(***************************************************************************)
C1_OneTerminalBlockLast ==
    turn.kind = "sse" =>
        /\ Cardinality(TerminalAt(DeliveredTypes)) <= 1
        /\ \A i \in TerminalAt(DeliveredTypes) : i = Len(delivered)
        /\ (turn.pc \in {"finally", "ended"} /\ ~turn.disconnected)
              => Cardinality(TerminalAt(DeliveredTypes)) = 1

\* a stream has ended on the error of the engine after a token: the error
\* block is the last one, and the engine is left where it would yield done
C1_Witness ==
    /\ turn.kind = "sse" /\ turn.pc = "ended" /\ ~turn.disconnected
    /\ Len(delivered) >= 2
    /\ DeliveredTypes[1] = "token"
    /\ DeliveredTypes[Len(delivered)] = "error"
    /\ engine.pc = "atError"

(***************************************************************************)
(* C2.  The engine itself yields at most one terminal event and nothing    *)
(* after it: after an error it yields no further event, in particular no   *)
(* done.                                                                   *)
(***************************************************************************)
C2_EngineYieldsOneTerminal ==
    /\ Cardinality(TerminalAt(EmittedTypes)) <= 1
    /\ \A i \in TerminalAt(EmittedTypes) : i = Len(emitted)

(***************************************************************************)
(* C3.  Once the Event registered for the turn is set: when the engine     *)
(* takes its next low-level event, the event it yields is cancelled and it *)
(* halts; and from then on the engine yields no token and no intent.       *)
(***************************************************************************)
C3_CancelledIsNext ==
    [][FlagSet =>
          /\ (\E event \in LowLevelEvents : EngineEvent(event))
                => /\ emitted' = Append(emitted,
                                        Item("cancelled", "Stream cancelled"))
                   /\ engine'.pc = "atCancelled"
          /\ \A i \in (Len(emitted) + 1)..Len(emitted') :
                emitted'[i].type \notin {"token", "intent"}
       ]_vars

\* the Event was set after a token had gone out and the engine's next event
\* was cancelled, which is the last block the client got
C3_Witness ==
    /\ FlagSet
    /\ last_cancel.id = TurnId /\ last_cancel.status = "cancelled"
    /\ Len(emitted) >= 2
    /\ EmittedTypes[1] = "token"
    /\ EmittedTypes[Len(emitted)] = "cancelled"
    /\ Len(delivered) >= 2
    /\ DeliveredTypes[Len(delivered)] = "cancelled"

(***************************************************************************)
(* C4.  As claimed: for every session key, the number of rows buffered for *)
(* it is below BATCH_SIZE right after every store_conversation call, also  *)
(* after one whose batch write failed.                                     *)
(***************************************************************************)
C4_BelowThresholdAfterEveryStore ==
    last.op = "store" => BufLen(last.sid) < BATCH_SIZE

(***************************************************************************)
(* C4, amended.  Right after a store_conversation call that returned True  *)
(* the session holds fewer than BATCH_SIZE rows; a list that holds         *)
(* BATCH_SIZE rows or more after the call is one whose threshold flush was *)
(* tried in that call and failed (the insert raised, or load_collection    *)
(* raised before it): the call returned False and the list kept every row. *)
(***************************************************************************)
C4_BelowThresholdAfterSuccessfulStore ==
    last.op = "store" =>
        /\ last.ret => BufLen(last.sid) < BATCH_SIZE
        /\ BufLen(last.sid) >= BATCH_SIZE =>
              /\ ~last.ret
              /\ \/ \E c \in last.calls :
                       c.sid = last.sid /\ ~c.ok
                       /\ c.data = write_buffer[last.sid]
                 \/ last.calls = {} /\ ~collection_loaded

\* a store_conversation call reached the threshold, flushed BATCH_SIZE rows
\* and left the session without a list
C4_Witness ==
    /\ last.op = "store" /\ last.ret
    /\ \E c \in last.calls : c.ok /\ Len(c.data) = BATCH_SIZE
    /\ BufLen(last.sid) = 0

(***************************************************************************)
(* C5.  A flush_session call on a non-empty list whose batch write did not *)
(* succeed returns False and leaves write_buffer, buffer_timestamps and    *)
(* the stored rows as they were; and a flush_session call on the same      *)
(* session right after a failed insert submits the same rows again.        *)
(***************************************************************************)
C5_FailedFlushKeepsBuffer ==
    [][\A s \in Sessions :
          /\ (FlushStep(s) /\ NonEmpty(s) /\ ~(\E c \in last'.calls : c.ok))
                => /\ last'.ret = FALSE
                   /\ write_buffer' = write_buffer
                   /\ buffer_timestamps' = buffer_timestamps
                   /\ db' = db
          /\ (FlushStep(s) /\ last.op = "flush" /\ last.sid = s
                /\ (\E c \in last.calls : ~c.ok))
                => /\ last'.calls # {}
                   /\ \A c \in last'.calls : \E c0 \in last.calls :
                          c.sid = s /\ c.data = c0.data
       ]_vars

\* a flush_session call whose insert failed has returned False, the list is
\* still buffered
C5_Witness ==
    /\ last.op = "flush" /\ ~last.ret
    /\ \E c \in last.calls : ~c.ok /\ c.data = write_buffer[last.sid]
    /\ last.sid \in DOMAIN buffer_timestamps

(***************************************************************************)
(* C6.  A flush_session call on a non-empty list makes at most one insert  *)
(* call, exactly one when the collection is loaded, and that call carries  *)
(* all rows of the list in the order they were appended; the list and its  *)
(* timestamp are removed, and the rows stored, exactly when that insert    *)
(* succeeded; otherwise nothing changes; the entries of the other sessions *)
(* are the same before and after.                                          *)
(***************************************************************************)
C6_FlushWritesWholeListOnce ==
    [][\A s \in Sessions :
          (FlushStep(s) /\ NonEmpty(s)) =>
              /\ Cardinality(last'.calls) <= 1
              /\ collection_loaded => last'.calls # {}
              /\ \A c \in last'.calls :
                    c.sid = s /\ c.data = write_buffer[s]
              /\ IF \E c \in last'.calls : c.ok
                 THEN /\ s \notin DOMAIN write_buffer'
                      /\ s \notin DOMAIN buffer_timestamps'
                      /\ db' = db (+) Rows(write_buffer[s])
                      /\ last'.ret = TRUE
                 ELSE /\ SameEntry(s)
                      /\ db' = db
                      /\ last'.ret = FALSE
              /\ \A t \in Sessions \ {s} : SameEntry(t)
       ]_vars

\* a flush_session call has written a list of two different rows while
\* another session holds a list
C6_Witness ==
    /\ last.op = "flush" /\ last.ret
    /\ \E c \in last.calls :
          c.ok /\ Len(c.data) >= 2 /\ c.data[1] # c.data[2]
    /\ last.sid \notin DOMAIN write_buffer
    /\ \E t \in Sessions \ {last.sid} : NonEmpty(t)

(***************************************************************************)
(* C7.  As claimed: a flush_session call on a session whose list is absent *)
(* or empty returns True and changes nothing, in every state.              *)
(***************************************************************************)
C7_EmptyFlushAlwaysSucceeds ==
    [][\A s \in Sessions :
          (FlushStep(s) /\ ~NonEmpty(s)) =>
              /\ last'.ret = TRUE
              /\ UNCHANGED <<write_buffer, buffer_timestamps, db>>
       ]_vars

(***************************************************************************)
(* C7, amended.  A flush_session call on a session whose list is absent or *)
(* empty changes nothing (no insert call, the two maps, the stored rows,   *)
(* the cache and collection_loaded as before) and returns True when the    *)
(* storage client exists and False when it is None; calling it again in    *)
(* the state it leaves gives the same result.                              *)
(***************************************************************************)
C7_EmptyFlushIsNoOp ==
    [][\A s \in Sessions :
          (FlushStep(s) /\ ~NonEmpty(s)) =>
              /\ last'.ret = client
              /\ last'.calls = {} /\ last'.dropped = {}
              /\ UNCHANGED <<write_buffer, buffer_timestamps, db,
                             embedding_cache, collection_loaded>>
              /\ \A env \in FlushEnvs :
                    LET again == flush_session(PState', s, env)
                    IN /\ again.ret = last'.ret
                       /\ again.write_buffer = write_buffer'
                       /\ again.buffer_timestamps = buffer_timestamps'
                       /\ again.db = db'
       ]_vars

\* a flush_session call on a session without a list has returned True while
\* another session holds a list
C7_Witness ==
    /\ last.op = "flush" /\ last.ret /\ last.calls = {}
    /\ client
    /\ last.sid \notin DOMAIN write_buffer
    /\ \E t \in Sessions \ {last.sid} : NonEmpty(t)

(***************************************************************************)
(* What a round of the sweep does to the lists that are stale before it.   *)
(***************************************************************************)
\* the sessions whose list is older than BUFFER_TTL
Stale == StaleSessions(PState, now)

\* the sessions whose rows a call record reports as removed without a write
DroppedSessions(l) == {d.sid : d \in l.dropped}

\* the list of session s was created by the last call, a store_conversation,
\* and no flush of it has been tried yet
FreshList(s) ==
    /\ last.op = "store" /\ last.sid = s /\ last.ret
    /\ last.calls = {}
    /\ BufLen(s) = 1

(***************************************************************************)
(* C10.  As claimed: a round of the sweep flushes every stale list; a      *)
(* stale list is discarded without being written only on repeated flush    *)
(* failure, so a list whose first flush ever is the one this round tries   *)
(* is still buffered after the round when that flush failed; and a list    *)
(* whose flush succeeded is not discarded.                                 *)
(***************************************************************************)
C10_DiscardOnlyOnRepeatedFailure ==
    [][SweepRound =>
          \A s \in Stale :
              /\ (\E c \in CallsFor(last', s) : c.ok)
                    => s \notin DroppedSessions(last')
              /\ FreshList(s) => s \notin DroppedSessions(last')
       ]_vars

(***************************************************************************)
(* C10, amended.  A round of the sweep calls flush_session once on every   *)
(* stale list and does not retry: the list is submitted in at most one     *)
(* insert call (exactly one when the collection is loaded), whole and in   *)
(* order; when that call succeeded the rows are stored and not discarded;  *)
(* when the flush failed, on its first failure, the rows are discarded     *)
(* unwritten.  Either way the stale list and its timestamp are gone after  *)
(* the round, and the lists that are not stale are left as they were.      *)
(***************************************************************************)
C10_SweepFlushesOnceThenDrops ==
    [][SweepRound =>
          /\ \A s \in Stale :
                /\ s \notin DOMAIN write_buffer'
                /\ s \notin DOMAIN buffer_timestamps'
                /\ Cardinality(CallsFor(last', s)) <= 1
                /\ collection_loaded => CallsFor(last', s) # {}
                /\ \A c \in CallsFor(last', s) : c.data = write_buffer[s]
                /\ IF \E c \in CallsFor(last', s) : c.ok
                   THEN s \notin DroppedSessions(last')
                   ELSE [sid |-> s, data |-> write_buffer[s]] \in last'.dropped
          /\ \A s \in Sessions \ Stale :
                /\ SameEntry(s)
                /\ CallsFor(last', s) = {}
                /\ s \notin DroppedSessions(last')
          /\ db' = db (+) Written(last'.calls)
       ]_vars

\* a round of the sweep has written one stale list and discarded another,
\* whose only flush failed
C10_Witness ==
    /\ last.op = "cleanup"
    /\ \E c \in last.calls : c.ok /\ c.sid \notin DroppedSessions(last)
    /\ \E d \in last.dropped :
          /\ \E c \in last.calls : c.sid = d.sid /\ ~c.ok /\ c.data = d.data
          /\ d.sid \notin DOMAIN write_buffer
          /\ ~(\E i \in 1..Len(d.data) : BagIn(d.data[i], db))

(***************************************************************************)
(* Where a row is while calls overlap.                                     *)
(***************************************************************************)
\* the row is in a list of write_buffer
ConcBuffered(r) ==
    \E k \in DOMAIN write_buffer :
        \E i \in 1..Len(write_buffer[k]) : write_buffer[k][i] = r

\* the rows the store_conversation calls of SpecConc can append
ConcRows ==
    {[session_id |-> ConcSession, timestamp |-> 0, text |-> n,
      embedding |-> Encode(n)] : n \in 1..MaxConcCalls}

(***************************************************************************)
(* C8.  No update is lost when store_conversation, flush_session and       *)
(* cleanup_stale_buffers run at the same time on one session key: every    *)
(* row of a store_conversation call that returned True is in durable       *)
(* storage, or still in the buffer, or was removed by the sweep after a    *)
(* failed flush.                                                           *)
(***************************************************************************)
C8_NoLostUpdate ==
    \A r \in acked : BagIn(r, db) \/ ConcBuffered(r) \/ r \in discarded

(***************************************************************************)
(* C9.  While the sweep task keeps running, every row placed in the write  *)
(* buffer eventually leaves it, whatever the durable writes answer.        *)
(***************************************************************************)
C9_BufferedRowEventuallyLeaves ==
    \A r \in ConcRows : ConcBuffered(r) ~> ~ConcBuffered(r)

(***************************************************************************)
(* What the claims read off the cancellation registry.                     *)
(***************************************************************************)
\* the stream id has an entry in one of the registry's two maps
Registered(id) ==
    id \in DOMAIN active_streams \/ id \in DOMAIN stream_timestamps

\* the step is a cancel request for the stream id
CancelStep(id) == last_cancel'.id = id /\ cancel_stream(id)

(***************************************************************************)
(* C11.  Once the cleanup of a turn's stream has run (the finally block of *)
(* stream_and_cleanup, after done, cancelled, error or a disconnect), the  *)
(* turn's stream id is in neither active_streams nor stream_timestamps.    *)
(***************************************************************************)
C11_ReleasedAfterCleanup ==
    (turn.kind = "sse" /\ turn.pc = "ended") => ~Registered(TurnId)

(***************************************************************************)
(* C12.  Every round of the stream sweep removes from active_streams and   *)
(* from stream_timestamps every id older than STREAM_TTL, whether or not   *)
(* its Event was set; an id is never in active_streams without its         *)
(* creation time; and while the sweep keeps running, every id that is in   *)
(* the registry is eventually in neither map.                              *)
(***************************************************************************)
C12_SweepReleasesStale ==
    /\ [][CleanupStaleStreams =>
            \A id \in StaleStreams(stream_timestamps, now) :
                /\ id \notin DOMAIN active_streams'
                /\ id \notin DOMAIN stream_timestamps']_vars
    /\ [](DOMAIN active_streams \subseteq DOMAIN stream_timestamps)
    /\ \A id \in StreamIds : Registered(id) ~> ~Registered(id)

\* the sweep has released two streams whose Event was never set: the one of
\* a turn that had ended, and the one of a turn still streaming
C12_Witness ==
    /\ cancel_set = {}
    /\ turn.kind = "sse" /\ turn.pc = "ended" /\ ~Registered(TurnId)
    /\ \E id \in DOMAIN others : others[id] = "open" /\ ~Registered(id)

(***************************************************************************)
(* C13.  A cancel request for id X, when X is in active_streams, sets the  *)
(* Event registered for X and answers cancelled; when X is not there it    *)
(* answers not_found and sets no Event.  Either way it sets no Event of    *)
(* another id and leaves both maps of the registry as they are.            *)
(***************************************************************************)
C13_CancelAnswers ==
    [][\A X \in StreamIds : CancelStep(X) =>
          /\ IF X \in DOMAIN active_streams
             THEN /\ cancel_set' = cancel_set \cup {X}
                  /\ last_cancel'.id = X
                  /\ last_cancel'.status = "cancelled"
             ELSE /\ cancel_set' = cancel_set
                  /\ last_cancel'.id = X
                  /\ last_cancel'.status = "not_found"
          /\ cancel_set' \ cancel_set \subseteq {X}
          /\ active_streams' = active_streams
          /\ stream_timestamps' = stream_timestamps
      ]_vars

\* two streams are registered; the request for one of them was answered
\* cancelled and the Event of the other one is not set
C13_Witness ==
    /\ \E id \in StreamIds \ {TurnId} :
          /\ last_cancel.id = id /\ last_cancel.status = "cancelled"
          /\ id \in cancel_set
    /\ TurnId \in DOMAIN active_streams
    /\ TurnId \notin cancel_set

\* the contents of the token blocks among SSE blocks, in order
RECURSIVE TokensOf(_)
TokensOf(blocks) ==
    IF blocks = <<>> THEN <<>>
    ELSE LET data_payload == ParseBlock(Head(blocks))
         IN (IF data_payload.type = "token" THEN <<data_payload.content>>
             ELSE <<>>) \o TokensOf(Tail(blocks))

\* the engine has yielded a terminal event
TerminalEmitted == TerminalAt(EmittedTypes) # {}

(***************************************************************************)
(* C14.  A cancel request changes nothing but the Event it sets and its    *)
(* own answer: not the events yielded or delivered, not the tasks created  *)
(* by the cleanup, not the buffer or the storage, and not a                *)
(* store_conversation or flush_session call in progress.  Once the engine  *)
(* has yielded its terminal event it never runs again, so it never reads   *)
(* an Event set after that: what the client is sent is, block for block,   *)
(* what the engine yielded (the last block may be sse_streamer's own error *)
(* block), and the record handed to store_conversation is the text of the  *)
(* token blocks that were sent.                                            *)
(***************************************************************************)
C14_LateCancelIsNoOp ==
    /\ [][/\ \A X \in StreamIds :
                (CancelStep(X) =>
                    UNCHANGED <<turn, engine, chan, emitted, delivered,
                                spawned, persVars, concVars>>)
           /\ (TerminalEmitted => (emitted' = emitted /\ engine' = engine))
         ]_vars
    /\ [](/\ Len(delivered) <= Len(emitted)
          /\ \A i \in 1..Len(delivered) :
                \/ delivered[i] = SseBlock(emitted[i])
                \/ /\ i = Len(delivered)
                   /\ delivered[i] =
                         SseBlock(Item("error", "Internal streaming error"))
          /\ spawned # <<>> =>
                /\ spawned[1].task = "store"
                /\ spawned[1].session_id = TurnId
                /\ spawned[1].bot_response = TokensOf(delivered)
          /\ \A t \in Workers :
                threads[t].caller = "store" =>
                    threads[t].text = Len(TokensOf(delivered)))

\* the Event of the turn was set after its engine had yielded done; the
\* client still got the token and the done block; the Event of another
\* stream was set while the turn's store_conversation call was in progress,
\* and the call went on to buffer the turn's record
C14_Witness ==
    /\ last_cancel.late /\ FlagSet
    /\ last_cancel.id # TurnId /\ last_cancel.status = "cancelled"
    /\ "store" \in last_cancel.during
    /\ DeliveredTypes = <<"token", "done">>
    /\ \A t \in Workers : At(t, "idle")
    /\ started = 2
    /\ \/ \E r \in acked : r.session_id = TurnId /\ r.text = 1
       \/ \E r \in DOMAIN db : r.session_id = TurnId /\ r.text = 1

(***************************************************************************)
(* C15.  An Event that is set stays set: no step (a further cancel         *)
(* request, a round of the sweep, the cleanup of the stream) resets it,    *)
(* and the turn's engine sees it set at every later check, also after the  *)
(* registry has released the id.                                           *)
(***************************************************************************)
C15_HandleMonotone ==
    [][/\ cancel_set \subseteq cancel_set'
       /\ FlagSet => FlagSet'
       /\ (FlagSet /\ engine.pc = "loop"
              /\ engine'.consumed = engine.consumed + 1)
             => emitted'[Len(emitted')].type = "cancelled"
      ]_vars

\* the Event of the turn was set, the sweep released the id while the turn
\* was streaming, a second cancel request was answered not_found, and the
\* engine's next check still found the Event set
C15_Witness ==
    /\ FlagSet
    /\ turn.pc = "streaming"
    /\ ~Registered(TurnId)
    /\ last_cancel.id = TurnId /\ last_cancel.status = "not_found"
    /\ emitted # <<>>
    /\ emitted[Len(emitted)].type = "cancelled"

(***************************************************************************)
(* What the claims read off the agent graph's run.                         *)
(***************************************************************************)
\* the node that ran last
LastRun == path[Len(path)]

\* the step runs a node that path records
Ran == path' # path

\* the run of the graph is over
RunOver == router.node \in {"END", "raised"}

(***************************************************************************)
(* C16.  The supervisor never raises: every run of the supervisor node     *)
(* produces a decision (a responder or FINISH), also when the structured   *)
(* request has failed and the free-text fallback fails too, so that no run *)
(* of the graph ends in an error raised by the routing decision.           *)
(***************************************************************************)
C16_SupervisorAlwaysDecides ==
    \A i \in 1..Len(path) :
        path[i].node = "supervisor" =>
            /\ ~path[i].raised
            /\ path[i].decision \in Decisions

(***************************************************************************)
(* C17.  Every run of the agent graph terminates: whatever the decision    *)
(* service answers, the run reaches END or ends with an error after a      *)
(* bounded number of hops between the supervisor and the responders.       *)
(***************************************************************************)
C17_RoutingTerminates == <>RunOver

(***************************************************************************)
(* C18.  The run reaches END only by a step of the supervisor that decides *)
(* FINISH; a responder whose LLM node answers with plain content (no tool  *)
(* calls) hands control back to the supervisor, and while tool calls are   *)
(* pending the run stays inside the responder.                             *)
(***************************************************************************)
C18_OnlySupervisorFinishes ==
    [][/\ (router'.node = "END" /\ router.node # "END") =>
              /\ router.node = "supervisor"
              /\ router'.next = "FINISH"
       /\ (router.node \in Responders /\ router'.node # router.node) =>
              \/ router'.node = "supervisor" /\ ~router'.tool_calls
              \/ router'.node = "raised"
       /\ (router.node \in Responders /\ router'.tool_calls) =>
              router'.node = router.node
      ]_vars

\* a responder has answered with plain content and handed back to the
\* supervisor, which then decided FINISH
C18_Witness ==
    /\ router.node = "END"
    /\ Len(path) = 3
    /\ path[1].node = "supervisor" /\ path[1].decision = "BookingAgent"
    /\ path[2].node = "BookingAgent"
    /\ path[3].node = "supervisor" /\ path[3].decision = "FINISH"

(***************************************************************************)
(* C19.  Whenever a responder is invoked, the node that ran just before it *)
(* is the supervisor and its decision names that responder; and after a    *)
(* decision that names a responder, the next node to run is that responder *)
(* (so one decision, one invocation).                                      *)
(***************************************************************************)
C19_OneDecisionPerInvocation ==
    [][Ran =>
          /\ LastRun'.node \in Responders =>
                /\ path # <<>>
                /\ LastRun.node = "supervisor"
                /\ LastRun.decision = LastRun'.node
          /\ (path # <<>> /\ LastRun.node = "supervisor"
                /\ LastRun.decision \in Responders) =>
                LastRun'.node = LastRun.decision
      ]_vars

\* two invocations in one run, of different responders, each after its own
\* decision, the second decision obtained through the fallback
C19_Witness ==
    /\ Len(path) = 4
    /\ path[1].node = "supervisor" /\ path[1].decision = "BookingAgent"
    /\ path[2].node = "BookingAgent"
    /\ path[3].node = "supervisor" /\ path[3].decision = "SupportAgent"
    /\ path[3].via = "fallback"
    /\ path[4].node = "SupportAgent"

(***************************************************************************)
(* C20.  For an EmbeddingCache with max_size >= 1 and any text T: get(T)   *)
(* returns None as long as set(T, .) was never called, and a get(T) that   *)
(* comes right after set(T, V) returns V, whatever else the cache holds    *)
(* and whether or not it was full.                                         *)
(***************************************************************************)
C20_MissThenWhatWasSet ==
    [][\A T \in CacheTexts :
          (cache_call'.op = "get" /\ cache_call'.text = T
             /\ CacheGetCall(T)) =>
              /\ T \notin cache_call.was_set => cache_call'.value = None
              /\ (cache_call.op = "set" /\ cache_call.text = T) =>
                    cache_call'.value = cache_call.value
      ]_vars

\* every text was set at some time, so that the cache of size 2 was full and
\* has evicted; a get has missed; the last set replaced the text's older
\* vector, and the get after it returned the new vector
C20_Witness ==
    /\ embedding_cache.max_size = 2
    /\ Len(embedding_cache.entries) = 2
    /\ cache_call.was_set = CacheTexts
    /\ embedding_cache.misses >= 1
    /\ cache_call.op = "get" /\ cache_call.text = 1
    /\ cache_call.value = <<2>>
    /\ \E i \in 1..2 : embedding_cache.entries[i] =
                            [key |-> HashText(1), value |-> <<2>>]

(***************************************************************************)
(* C21.  When set is called on a full EmbeddingCache, the entry evicted is *)
(* the one whose latest set is the oldest among the entries held, and      *)
(* every other entry is still held with its vector afterwards; this after  *)
(* any gets and sets, sets that overwrote a key included.                  *)
(***************************************************************************)
\* the text among those held whose latest set is the oldest
OldestSet(c, order) ==
    LET held == SelectSeq(order, LAMBDA x : HashText(x) \in CacheKeys(c))
    IN Head(held)

\* the vector held for a text
Held(c, text) == c.entries[CacheIndex(c, HashText(text))].value

C21_EvictsOldestSet ==
    [][\A text \in EvictTexts :
          (/\ CacheSetCall(text, Encode(text))
           /\ Len(embedding_cache.entries) >= embedding_cache.max_size) =>
              LET oldest == OldestSet(embedding_cache, cache_call.order)
              IN /\ oldest # text =>
                       HashText(oldest) \notin CacheKeys(embedding_cache')
                 /\ \A other \in EvictTexts \ {oldest, text} :
                       HashText(other) \in CacheKeys(embedding_cache) =>
                          /\ HashText(other) \in CacheKeys(embedding_cache')
                          /\ Held(embedding_cache', other) =
                                Held(embedding_cache, other)
      ]_vars

(***************************************************************************)
(* C22.  After any gets and sets, an EmbeddingCache holds at most max_size *)
(* entries and a SystemMessageCache holds at most max_size entries.        *)
(***************************************************************************)
C22_CapacityIsHardBound ==
    /\ Len(embedding_cache.entries) <= embedding_cache.max_size
    /\ Len(system_message_cache.entries) <= system_message_cache.max_size

\* both caches are full and each has evicted an entry: the first entry held
\* is not the first one that was set (every set sequence starts with the
\* entry that is later evicted), and gets have hit and missed
C22_Witness ==
    /\ embedding_cache.max_size = 2
    /\ system_message_cache.max_size = 2
    /\ Len(embedding_cache.entries) = 2
    /\ Len(system_message_cache.entries) = 2
    /\ CacheKeys(embedding_cache) = {HashText(2), HashText(3)}
    /\ embedding_cache.hits >= 1
    /\ embedding_cache.misses >= 2
    /\ CacheKeys(system_message_cache) =
          {SystemMessageKey(<<"a">>, <<"b">>),
           SystemMessageKey(<<"a", ":", ":">>, <<"b">>)}
    /\ SystemMessageGet(system_message_cache, <<"a">>, <<>>) = None

(***************************************************************************)
(* C30.  Every EmbeddingCache.get increments exactly one counter: hits     *)
(* when the key is held at that moment, misses otherwise.  set and         *)
(* get_stats change neither counter.  So hits + misses is the number of    *)
(* get calls made.                                                         *)
(***************************************************************************)
C30_HitMissAccountingExact ==
    /\ [][/\ \A T \in CacheTexts :
               (cache_call'.op = "get" /\ CacheGetCall(T)) =>
                  IF HashText(T) \in CacheKeys(embedding_cache)
                  THEN /\ embedding_cache'.hits = embedding_cache.hits + 1
                       /\ embedding_cache'.misses = embedding_cache.misses
                  ELSE /\ embedding_cache'.hits = embedding_cache.hits
                       /\ embedding_cache'.misses = embedding_cache.misses + 1
          /\ cache_call'.op \in {"set", "get_stats"} =>
                  /\ embedding_cache'.hits = embedding_cache.hits
                  /\ embedding_cache'.misses = embedding_cache.misses
         ]_vars
    /\ [](embedding_cache.hits + embedding_cache.misses = cache_call.gets)

\* gets have hit and missed, the full cache has evicted between them, and
\* get_stats was called last
C30_Witness ==
    /\ cache_call.op = "get_stats"
    /\ cache_call.gets = 3
    /\ embedding_cache.hits = 1
    /\ embedding_cache.misses = 2
    /\ cache_call.was_set = CacheTexts
    /\ Len(embedding_cache.entries) = embedding_cache.max_size
    /\ CacheStats(embedding_cache).hit_rate = 3333

(***************************************************************************)
(* C23.  A stats-cache entry set for a user at time t, the TTL being d, is *)
(* returned by every get for that user before t + d, whatever was got and  *)
(* whatever was set for other users in between; every get at t + d or      *)
(* later returns None unless the entry was set again.  (An entry           *)
(* invalidated since its set counts as not set.)                           *)
(***************************************************************************)
\* the entry of the user is set, not invalidated since, and younger than TTL
StatsFresh(u) ==
    /\ stats_call.latest[u].value # None
    /\ now < stats_call.latest[u].at + stats_cache.ttl

\* a get for the user returns the value of the latest set
ReturnsLatest(u) == stats_call'.value = stats_call.latest[u].value

GetStep(u) ==
    /\ stats_call'.op = "get"
    /\ stats_call'.user = u
    /\ StatsGetCall(u)

C23_FreshUntilTTL ==
    [][\A u \in StatsUsers :
          GetStep(u) =>
              IF StatsFresh(u) THEN ReturnsLatest(u)
              ELSE stats_call'.value = None
      ]_vars

(***************************************************************************)
(* C23, amended.  As long as no more than max_size different users were    *)
(* ever set, an entry set at time t is returned by every get for its user  *)
(* before t + d; in every case a get at t + d or later, or after the       *)
(* entry was invalidated, returns None unless the entry was set again.     *)
(***************************************************************************)
C23_FreshUntilTTLWithinCapacity ==
    [][\A u \in StatsUsers :
          GetStep(u) =>
              /\ (StatsFresh(u)
                    /\ Cardinality(stats_call.ever) <= stats_cache.maxsize)
                       => ReturnsLatest(u)
              /\ ~StatsFresh(u) => stats_call'.value = None
      ]_vars

\* a cache of two entries with a TTL of 2: user 1 was last set a second
\* ago and a get for it returns the value set; user 2, set earlier, has
\* expired, its entry still being held, and user 3 was never set
C23_Witness ==
    /\ stats_cache.maxsize = 2
    /\ stats_cache.ttl = 2
    /\ stats_call.ever = {1, 2}
    /\ stats_call.latest[1] = [at |-> -1, value |-> <<1>>]
    /\ stats_call.latest[2].value = None
    /\ stats_call.op = "get" /\ stats_call.user = 1
    /\ stats_call.value = <<1>>
    /\ 2 \in CacheKeys(stats_cache)
    /\ ~StatsLive(stats_cache, 2, now)

(***************************************************************************)
(* C24.  While the storage client is None, every persistence operation     *)
(* returns its empty or negative result and changes nothing:               *)
(* store_conversation and flush_session return False, get_user_history     *)
(* returns an empty list, get_user_stats an empty mapping,                 *)
(* cleanup_stale_buffers does nothing, and write_buffer and                *)
(* buffer_timestamps stay empty.  (No operation of the model can raise     *)
(* there: each returns before its first call on the client.)               *)
(***************************************************************************)
C24_UnavailableIsNoOp ==
    /\ [](~client => write_buffer = EmptyDict /\ buffer_timestamps = EmptyDict)
    /\ [][~client =>
            /\ last'.op \in {"store", "flush"} => last'.ret = FALSE
            /\ last'.op = "history" => last'.value = <<>>
            /\ last'.op = "stats" => last'.value = EmptyDict
            /\ last'.calls = {} /\ last'.dropped = {}
            /\ UNCHANGED <<client, collection_loaded, write_buffer,
                           buffer_timestamps, embedding_cache, db>>
         ]_vars

\* without a client, time has passed beyond the TTL, and get_user_stats was
\* the last call
C24_Witness ==
    /\ ~client
    /\ now > BUFFER_TTL
    /\ last.op = "stats"


\* C25: a non-streaming turn that has ended has given its caller a response
\* object, never an HTTP error: when the graph's run failed the response's
\* text is "Error processing message." (intent "error"), and this is so
\* whatever store_conversation answered while recording the turn.
C25_AlwaysAResponse ==
    chat.pc = "answered" =>
        /\ chat.response.kind = "response"
        /\ router.node = "raised" =>
               /\ chat.response.bot_response = ErrorText
               /\ chat.response.intent = "error"
        /\ router.node = "END" => chat.response.bot_response = "content"

\* a turn whose graph run failed and whose record the storage refused (the
\* client is there, the store answered False) has been answered
C25_Witness ==
    /\ chat.pc = "answered"
    /\ router.node = "raised"
    /\ client
    /\ last.op = "store" /\ last.sid = chat.n /\ ~last.ret
    /\ chat.response.bot_response = ErrorText


\* the store tasks among the tasks the stream's cleanup has created
StoreTasks == {i \in 1..Len(spawned) : spawned[i].task = "store"}

RECURSIVE IntentsOf(_)
IntentsOf(items) ==
    IF items = <<>> THEN <<>>
    ELSE (IF Head(items).type = "intent" THEN <<Head(items).content>>
          ELSE <<>>) \o IntentsOf(Tail(items))

\* the names that are names of tools: not empty, not "_Exception", not
\* "LangGraph"
RECURSIVE ToolNames(_)
ToolNames(names) ==
    IF names = <<>> THEN <<>>
    ELSE (IF Head(names) \notin {"", "_Exception", "LangGraph"}
          THEN <<Head(names)>> ELSE <<>>) \o ToolNames(Tail(names))

\* C27: the intent events the engine has yielded are, one for one and in
\* order, the names of the tool starts its loop has handled, those named
\* "_Exception" or "LangGraph" and those without a name left out; and a step
\* of the engine yields an intent event only for the tool start it handles.
C27_OneIntentPerToolStart ==
    /\ [][IntentsOf(emitted') # IntentsOf(emitted) =>
             /\ Len(engine'.tools) = Len(engine.tools) + 1
             /\ Len(emitted') = Len(emitted) + 1
             /\ emitted'[Len(emitted')] =
                   Item("intent", engine'.tools[Len(engine'.tools)])
         ]_vars
    /\ [](IntentsOf(emitted) = ToolNames(engine.tools))

\* the graph started "_Exception", a tool, and a start without a name; the
\* engine yielded one intent event, the tool's
C27_Witness ==
    /\ engine.tools = <<"_Exception", "booking_agent_tool", "">>
    /\ IntentsOf(emitted) = <<"booking_agent_tool">>
    /\ EmittedTypes = <<"intent">>


\* a is the beginning of b
IsPrefix(a, b) == Len(a) <= Len(b) /\ SubSeq(b, 1, Len(a)) = a

\* the message histories the nodes of the run in progress are given: the
\* parent's state, and the state of the responder's sub-graph while it runs
Histories ==
    {memory.state} \cup (IF memory.node \in {"agent", "tools"}
                         THEN {memory.sub} ELSE {})

\* C28: while a turn runs on a thread_id, every history its supervisor and
\* responders are given begins with the whole state the previous turn on the
\* same thread_id ended with (nothing, if there was none), followed by this
\* turn's input; from one step to the next of a run the parent's state only
\* grows at its end; and no history holds a message of a turn that was
\* submitted with another thread_id.
C28_ThreadCarriesHistory ==
    /\ [][(memory.thread # 0 /\ memory'.thread = memory.thread) =>
             IsPrefix(memory.state, memory'.state)]_vars
    /\ [](memory.thread # 0 =>
            \A h \in Histories :
               /\ IsPrefix(memory.prev[memory.thread] \o <<memory.input>>, h)
               /\ \A i \in 1..Len(h) :
                     memory.of[h[i][1]] = memory.thread)

\* the second turn on thread 1, after a turn on thread 2 in between: its
\* responder is given the first turn's messages (the input, and the
\* responder's final state with the tool's result) and then the new input
C28_Witness ==
    /\ memory.of = <<1, 2, 1>>
    /\ memory.thread = 1 /\ memory.node = "agent"
    /\ memory.prev[1] = << <<1, "human">>,
                           <<1, "human">>, <<1, "ai">>, <<1, "tool">>,
                           <<1, "ai">> >>
    /\ memory.sub = memory.prev[1] \o << <<3, "human">> >>
    /\ memory.prev[2] # <<>>


\* the step is a call of booking_agent_tool
ToolStep == router.node = "BookingAgent" /\ router.inner = "tools"
            /\ router' # router

\* C29: every call of booking_agent_tool returns a text, whichever calendar
\* operation raises in it (cancel_meeting, is_slot_available,
\* get_available_slots, the parsing of the time, book_meeting); no exception
\* leaves the tool, so its call never ends the graph's run, and the
\* responder's sub-graph goes on to its LLM node with the text.
C29_ToolFailureIsText ==
    /\ [][ToolStep =>
             /\ tool_call'.result.kind = "text"
             /\ tool_call'.failed # "none" =>
                   tool_call'.result.text = <<"", "went wrong", "", "">>
             /\ router'.node = "BookingAgent" /\ router'.inner = "llm"
         ]_vars
    /\ [](tool_call.result.kind \in {"none", "text"})

\* book_meeting has raised in a call of the tool, the call has returned its
\* text and the responder's LLM node runs next
C29_Witness ==
    /\ tool_call.failed = "booking"
    /\ tool_call.result = [kind |-> "text",
                           text |-> <<"", "went wrong", "", "">>]
    /\ router.node = "BookingAgent" /\ router.inner = "llm"


\* the text has an entry in the cache
Cached(c, text) == HashText(text) \in CacheKeys(c)

\* the rows a call has left at the end of the session's list or handed to
\* the storage in a batch
NewestRows(p_last, buffer, s) ==
    (IF s \in DOMAIN buffer THEN {buffer[s][Len(buffer[s])]} ELSE {})
    \cup {c.data[Len(c.data)] : c \in {x \in p_last.calls : x.sid = s}}

\* C31: a store_conversation call on a layer with a client looks into the
\* embedding cache exactly once; it invokes the embedding model exactly when
\* the text has no entry (once), and not at all when it has one, whatever
\* the session key; on a hit the cache keeps its entries and the row the
\* call appends carries the vector the cache held.
C31_EncodeOnlyOnMiss ==
    [][\A s \in {last'.sid} \cap Sessions, t \in EmbedTexts :
          (client /\ last'.op = "store" /\ StoreConversation(s, t)) =>
             /\ embedding_cache'.hits + embedding_cache'.misses =
                   embedding_cache.hits + embedding_cache.misses + 1
             /\ last'.encodes = IF Cached(embedding_cache, t) THEN 0 ELSE 1
             /\ Cached(embedding_cache, t) =>
                   /\ embedding_cache'.entries = embedding_cache.entries
                   /\ embedding_cache'.hits = embedding_cache.hits + 1
                   /\ NewestRows(last', write_buffer', s) # {}
                   /\ \A row \in NewestRows(last', write_buffer', s) :
                         /\ row.text = t
                         /\ row.embedding = Held(embedding_cache, t)
      ]_vars

\* the same text was stored under both session keys: the model was invoked
\* for the first call only (one miss, one hit), and both rows carry the
\* vector
C31_Witness ==
    /\ client
    /\ embedding_cache.misses = 1 /\ embedding_cache.hits = 1
    /\ last.op = "store" /\ last.sid = 2 /\ last.ret /\ last.encodes = 0
    /\ DOMAIN write_buffer = {1, 2}
    /\ write_buffer[1][1].embedding = write_buffer[2][1].embedding
    /\ write_buffer[1][1].text = write_buffer[2][1].text


\* the number of times a call of the tool awaited the calendar operation
Awaited(name) ==
    Cardinality({i \in 1..Len(tool_call.ops) : tool_call.ops[i].op = name})

\* what is_slot_available answered in the call, if it was awaited
Availability ==
    {tool_call.ops[i].out : i \in {k \in 1..Len(tool_call.ops) :
                                     tool_call.ops[k].op = "is_slot_available"}}

\* every calendar operation the call awaited returned, and book_meeting
\* returned a whole booking
AllReturned ==
    \A i \in 1..Len(tool_call.ops) :
        tool_call.ops[i].out \notin {"raise", "partial"}

\* C32: in a call of booking_agent_tool whose calendar operations all
\* return, when is_slot_available answers true the tool awaits book_meeting
\* exactly once and returns the confirmation text; when it answers false the
\* tool never awaits book_meeting, awaits get_available_slots once and
\* returns the not-available text.
C32_BooksIffAvailable ==
    AllReturned =>
        /\ "yes" \in Availability =>
              /\ Awaited("book_meeting") = 1
              /\ tool_call.result.kind = "text"
              /\ tool_call.result.text[2] = "booked"
        /\ "no" \in Availability =>
              /\ Awaited("book_meeting") = 0
              /\ Awaited("get_available_slots") = 1
              /\ tool_call.result.kind = "text"
              /\ tool_call.result.text[2] = "not available"

\* the rows of the streamed turn that store_conversation acknowledged
TurnRows == {r \in acked : r.session_id = TurnId}

\* C33: once the store task and the flush task created by the stream's
\* cleanup have both completed and both calls returned True, the turn's
\* record is in durable storage and the write buffer no longer holds the
\* turn's session.
C33_StoredBeforeFlushed ==
    (/\ Len(spawned) = 2 /\ started = 2
     /\ threads[1].ret = "True" /\ threads[2].ret = "True")
    => /\ TurnRows # {}
       /\ \A r \in TurnRows : BagIn(r, db)
       /\ TurnId \notin DOMAIN write_buffer

\* C34: whatever way flush_session calls on one session interleave (the
\* threshold flush of store_conversation, an explicit flush, the sweep's
\* flush), durable storage holds no record twice.
C34_NoRecordWrittenTwice ==
    \A r \in BagToSet(db) : CopiesIn(r, db) <= 1

\* C35: while the turn's stream is in progress (registered by the request
\* and not yet at its cleanup), a cancel request for the turn's id is
\* answered cancelled and sets the turn's Event, whatever time has passed
\* and whatever rounds of the stream sweep have run.
C35_InProgressIsCancellable ==
    [][(turn.kind = "sse" /\ turn.pc = "streaming" /\ CancelStep(TurnId)) =>
          /\ last_cancel'.status = "cancelled"
          /\ TurnId \in cancel_set'
      ]_vars

\* C36: when the chat client's Stop action runs while the stream it is
\* reading is in progress, the id it sends to /chat/cancel is the id under
\* which the server registered that stream, and the stream's Event is set.
C36_StopCancelsOwnStream ==
    [][(turn.kind = "sse" /\ turn.pc = "streaming" /\ app_cancel_stream) =>
          /\ last_cancel'.id = TurnId
          /\ last_cancel'.status = "cancelled"
          /\ active_streams[TurnId] \in cancel_set'
      ]_vars

\* C37: after any sequential series of store_conversation, flush_session
\* and cleanup_stale_buffers calls, write_buffer and buffer_timestamps have
\* the same session keys and no list of write_buffer is empty.
C37_BufferKeysAgree ==
    /\ DOMAIN write_buffer = DOMAIN buffer_timestamps
    /\ \A k \in DOMAIN write_buffer : write_buffer[k] # <<>>

\* a sweep has just returned after dropping a list whose flush failed, a
\* flush had written another list before, and a session is still buffered
C37_Witness ==
    /\ last.op = "cleanup"
    /\ BagToSet(db) # {}
    /\ \E c \in last.calls : ~c.ok
    /\ DOMAIN write_buffer # {}
    /\ DOMAIN write_buffer = DOMAIN buffer_timestamps

C39_OverwriteEvictsNothing ==
    [][\A text \in CacheTexts, embedding \in Vectors :
          (/\ CacheSetCall(text, embedding)
           /\ HashText(text) \in CacheKeys(embedding_cache)) =>
              /\ CacheKeys(embedding_cache') = CacheKeys(embedding_cache)
              /\ Len(embedding_cache'.entries) = Len(embedding_cache.entries)
              /\ Held(embedding_cache', text) = embedding
              /\ \A other \in CacheTexts \ {text} :
                    HashText(other) \in CacheKeys(embedding_cache) =>
                       Held(embedding_cache', other) =
                          Held(embedding_cache, other)
      ]_vars

\* the call's cancel_meeting found the previous meeting and deleted it
Cancelled ==
    \E i \in 1..Len(tool_call.ops) :
        tool_call.ops[i] = Op("cancel_meeting", "found")

\* the call's book_meeting created the new meeting
Created ==
    \E i \in 1..Len(tool_call.ops) :
        /\ tool_call.ops[i].op = "book_meeting"
        /\ tool_call.ops[i].out \in {"ok", "partial"}

\* C40, as stated: no call of booking_agent_tool with reschedule=True ends
\* with the previous meeting cancelled and no new meeting created.
C40_NeverWithoutMeeting ==
    (tool_call.reschedule /\ Cancelled) => Created

\* C40, amended: a call with reschedule=True that reaches the calendar
\* awaits cancel_meeting once and before every other operation; a new
\* meeting is created only after is_slot_available answered true; when the
\* previous meeting was cancelled and the slot is not available, the tool
\* awaits no book_meeting and returns the cancellation notice with the
\* not-available text; when it was cancelled and the slot is booked, it
\* returns the cancellation notice with the confirmation.
C40_CancelsBeforeBooking ==
    (tool_call.reschedule /\ tool_call.ops # <<>>) =>
        /\ tool_call.ops[1].op = "cancel_meeting"
        /\ Awaited("cancel_meeting") = 1
        /\ Created => Availability = {"yes"}
        /\ (Cancelled /\ "no" \in Availability /\ AllReturned) =>
              /\ Awaited("book_meeting") = 0
              /\ tool_call.result.kind = "text"
              /\ tool_call.result.text[1] = "cancelled"
              /\ tool_call.result.text[2] = "not available"
        /\ (Cancelled /\ Created /\ AllReturned) =>
              /\ tool_call.result.kind = "text"
              /\ tool_call.result.text[1] = "cancelled"
              /\ tool_call.result.text[2] = "booked"

\* a reschedule whose previous meeting was cancelled and whose new slot was
\* not available: the tool returned both notices and booked nothing
C40_Witness ==
    /\ tool_call.reschedule /\ Cancelled /\ ~Created
    /\ "no" \in Availability
    /\ tool_call.result.kind = "text"
    /\ tool_call.result.text[1] = "cancelled"
    /\ tool_call.result.text[2] = "not available"

============================================================================
